---- MODULE Spec2Model ----
(***************************************************************************)
(* Slack Guest Sentinel: the Stripe webhook route (claim manager and       *)
(* subscription reconciler) as a state machine.                            *)
(*                                                                         *)
(* Every await of the route is a suspension point, so every database call  *)
(* is one step of the request that makes it and requests interleave        *)
(* between their calls.  Timestamps are kept as the milliseconds elapsed   *)
(* since they were taken (an age): the route only ever compares            *)
(* Date.now() - updated_at with PROCESSING_STALE_MS, so ages above the     *)
(* window are all alike and are capped at AgeCap.                          *)
(***************************************************************************)
EXTENDS Integers, FiniteSets, Sequences, TLC

\* ------------------------------------------------------------ bounds
\* granularity of the clock, in ms
TickMs == 600000
\* the attempts column stops counting here
MaxAttempts == 3
\* the per-event upsert counter stops counting here
MaxUpserts == 2
\* failures of the environment in a run where they are to end
MaxFaults == 2

\* audits started in a behaviour
MaxRuns == 2
\* the requests the server runs at a time, and the Stripe events delivered
Handlers == {1, 2}
EventIds == {1}

NULL == "null"

\* ------------------------------------------------------------ constants
PROCESSING_STALE_MS == 10 * 60 * 1000

STRIPE_PRICE_STARTER == "price_starter"
STRIPE_PRICE_GROWTH == "price_growth"
STRIPE_PRICE_SCALE == "price_scale"

SUBSCRIPTION_STATUS == [ACTIVE |-> "active", TRIALING |-> "trialing", CANCELED |-> "canceled"]

VALID_PAID_PLANS == {"starter", "growth", "scale"}

\* ------------------------------------------------------------ time
AgeCap == PROCESSING_STALE_MS + TickMs

Later(age) == IF age + TickMs > AgeCap THEN AgeCap ELSE age + TickMs

\* ------------------------------------------------------------ pure functions
\* a mapping that answers the entry plan for a price it does not know
mapPriceIdToPlanDefaulting(priceId) ==
  IF priceId = STRIPE_PRICE_GROWTH THEN "growth"
  ELSE IF priceId = STRIPE_PRICE_SCALE THEN "scale"
  ELSE "starter"

\* lines 33-39
mapPriceIdToPlan(priceId) ==
  IF priceId = NULL THEN NULL
  ELSE IF priceId = STRIPE_PRICE_STARTER THEN "starter"
  ELSE IF priceId = STRIPE_PRICE_GROWTH THEN "growth"
  ELSE IF priceId = STRIPE_PRICE_SCALE THEN "scale"
  ELSE NULL

\* what stripe.subscriptions.retrieve can answer: a subscription object, or a throw
StripeRetrieve ==
  { [price |-> STRIPE_PRICE_GROWTH, status |-> "trialing"],
    [price |-> "price_unknown", status |-> "active"] }

\* The payloads the sender delivers, with the fields the route reads:
\*   workspace    : session.client_reference_id / subscription.metadata.workspaceId
\*   subscription : session.subscription / subscription.id
\*   plan         : session.metadata.plan
\*   price        : subscription.items.data[0].price.id
Payloads ==
  << [type |-> "checkout.session.completed", workspace |-> "W1", customer |-> "cus_1",
      subscription |-> NULL, plan |-> "growth", price |-> NULL, status |-> NULL],
     [type |-> "customer.subscription.updated", workspace |-> NULL, customer |-> "cus_1",
      subscription |-> "sub_1", plan |-> NULL, price |-> STRIPE_PRICE_STARTER,
      status |-> "active"],
     [type |-> "checkout.session.completed", workspace |-> "W1", customer |-> "cus_1",
      subscription |-> "sub_1", plan |-> NULL, price |-> NULL, status |-> NULL] >>

\* An event id names one payload for good: the ways to hand payloads to the event ids
Catalogs ==
  { [e \in EventIds |-> Payloads[((e + k) % Len(Payloads)) + 1]] : k \in 0..(Len(Payloads) - 1) }

\* ------------------------------------------------------------ state
VARIABLES
  stripe_events_history,  \* the claim table: a set of rows
  subscriptions,          \* the subscriptions table: a set of rows
  req,                    \* req[h]: the request handler h is running
  catalog,                \* the payload of each event id
  upserts,                \* upserts[e]: subscriptions upserts executed for event e
  faults,                 \* failures the environment may still cause; below 0: any number
  guest_audits,           \* the guest_audits table: a set of rows
  directory,              \* directory[w]: what Slack knows of the guests of tenant w
  run,                    \* run[r]: the audit of one tenant that slot r is running
  started,                \* audits started so far
  settled,                \* settled[w]: the keys the last undisturbed audit of w left
  audit_runs,             \* the audit_runs table: a set of rows
  purged,                 \* what the last run of purge_old_data did to guest_audits
  workspaces,             \* the workspaces table: workspaces[t] is the row of tenant t
  cron,                   \* the call of auditAllActiveWorkspaces
  task,                   \* task[t]: the auditWorkspace promise of tenant t in that call
  pages,                  \* the pages users.list serves, in the order of their cursors
  call,                   \* the call of slackApiCall under way
  listing,                \* the call of getGuests
  lookup,                 \* the call of getUserPresence
  alert,                  \* the alert sendInactiveAlert built
  click,                  \* the block_actions payload handlePayload works on
  before                  \* before[h]: the subscriptions table when request h arrived

webhookVars == <<stripe_events_history, subscriptions, req, catalog, upserts, faults>>

auditVars == <<guest_audits, directory, run, started, settled, audit_runs, purged>>

cronVars == <<workspaces, cron, task>>

slackVars == <<pages, call, listing, lookup, alert, click, before>>

vars == <<webhookVars, auditVars, cronVars, slackVars>>

\* the row a select has not read yet, and the subscriptions row not built yet
NoExisting == [status |-> NULL, attempts |-> 0]

NoRow ==
  [workspace_id |-> NULL, stripe_customer_id |-> NULL, stripe_subscription_id |-> NULL,
   plan |-> NULL, status |-> NULL]

\* a handler that runs no request; retrieves counts the calls of
\* stripe.subscriptions.retrieve the request made, planPrice is the price id the
\* call of resolveCheckoutPlan was answered
Idle ==
  [pc |-> "idle", ev |-> 0, sig |-> NULL, nowIso |-> 0, existing |-> NoExisting,
   claimResult |-> NULL, response |-> 0, err |-> NULL, row |-> NoRow,
   retrieves |-> 0, planPrice |-> NULL]

ClaimPcs == {"insert", "select", "reclaim"}

\* ------------------------------------------------------------ the audit: data
\* The scoring weights and the threshold of AUDIT, counted in halves of a point
\* (the presence weight is 0.5): 3, 1, 0.5 and the threshold 1.
MIN_ACTIVE_SCORE == 2
SCORE_LAST_MESSAGE == 6

\* a profile weight that reaches the threshold only together with the presence
ScoreProfileWithPresence == MIN_ACTIVE_SCORE - 1

SCORE_PROFILE_UPDATED == 2

\* a presence weight that reaches the threshold
ScorePresenceAtThreshold == MIN_ACTIVE_SCORE

SCORE_PRESENCE_ACTIVE == 1

GUEST_SCORING_CONCURRENCY == 10

DEFAULT_SEAT_COST_USD == 15

\* SLACK_ACTION_ID
SLACK_ACTION_ID ==
  [DEACTIVATE_GUEST |-> "deactivate_guest_action", IGNORE_GUEST |-> "ignore_guest_action"]

\* GUEST_ACTION
GUEST_ACTION ==
  [FLAGGED |-> "flagged", DEACTIVATION_ACCEPTED |-> "suggested_deactivation_accepted",
   IGNORED_BY_ADMIN |-> "ignored_by_admin"]

WORKSPACE_BATCH_SIZE == 5

\* the retention of guest_audits, in days
RETENTION_DAYS == 90

\* the days that pass at a time
TickDays == 45

ACTIVITY_WINDOW_SECONDS == 30 * 24 * 60 * 60

\* Date.now() / 1000 of the audits, which all run within the same second
NowSeconds == ACTIVITY_WINDOW_SECONDS + 5

\* the audits that run at a time
AuditRuns == {1, 2}

\* the guests that post a message while audits run: the first of the first tenant
Posters == {<<"W1", 1>>}

AuditTenants == {"W1", "W2"}

\* A guest as Slack knows it: updated is the member's field of users.list
\* (0: none), presence what users.getPresence answers, lastMsg what
\* getLastMessageTs finds (0: null; it only looks past the cutoff).
Guest(id, updated, presence, lastMsg) ==
  [id |-> id, updated |-> updated, presence |-> presence, lastMsg |-> lastMsg]

Stamps == {0, NowSeconds - ACTIVITY_WINDOW_SECONDS - 1, NowSeconds - ACTIVITY_WINDOW_SECONDS,
           NowSeconds - ACTIVITY_WINDOW_SECONDS + 1}

\* a workspace of eleven guests, one more than a scoring batch
LargeDirectory ==
  [i \in 1..(GUEST_SCORING_CONCURRENCY + 1) |->
     Guest(i, IF i % 3 = 0 THEN NowSeconds - 1 ELSE 0,
           IF i % 2 = 0 THEN "active" ELSE "away",
           IF i % 5 = 0 THEN NowSeconds - 2 ELSE 0)]

\* the guest lists of the first tenant
Directories ==
  {<< >>, LargeDirectory}
  \cup { <<Guest(1, u, p, m)>> : u \in Stamps, p \in {"active", "away"}, m \in {0, NowSeconds - 2} }
  \cup { <<Guest(1, u, "active", m), g>> :
           u \in {0, NowSeconds - 1}, m \in {0, NowSeconds - 2},
           g \in {Guest(2, 0, "active", 0), Guest(2, NowSeconds - 1, "away", 0),
                  Guest(2, 0, "away", NowSeconds - 2)} }

NoSettled == [known |-> FALSE, keys |-> {}]

\* a slot that runs no audit; notified lists the guests whose alert was started,
\* pending counts the alerts not settled yet, alertFailed tells that one of
\* them failed, outcome how the promise of auditWorkspace settled
NoRun ==
  [pc |-> "idle", ws |-> NULL, gen |-> 0, guests |-> << >>, scored |-> << >>,
   flagged |-> FALSE, cleared |-> FALSE, guestCount |-> 0, inactiveCount |-> 0,
   clean |-> FALSE, rerun |-> FALSE, notified |-> << >>, pending |-> 0,
   alertFailed |-> FALSE, outcome |-> NULL]

\* purge_old_data has not run
NoPurge == [deleted |-> {}, kept |-> {}]

\* the tenants of a full audit run, in the order the database returns them
CronTenants == <<"T1", "T2", "T3", "T4", "T5", "T6", "T7", "T8", "T9">>

TenantSet == {CronTenants[k] : k \in DOMAIN CronTenants}

\* how many guests users.list returns for a tenant and how many of them the
\* scoring finds inactive; the sixth tenant has one guest more than a scoring batch
Estate ==
  [t \in TenantSet |->
     CASE t = "T6" -> [guests |-> GUEST_SCORING_CONCURRENCY + 1, inactive |-> 6]
       [] t = "T2" -> [guests |-> 2, inactive |-> 1]
       [] t = "T4" -> [guests |-> 0, inactive |-> 0]
       [] t = "T5" -> [guests |-> 1, inactive |-> 0]
       [] OTHER -> [guests |-> 1, inactive |-> 1]]

\* the tenants whose credential, whose Slack calls and whose database writes may fail
Fragile == {"T2", "T6"}

\* the tenants that uninstall the app, and those whose subscription changes
Uninstallers == {"T3"}
Flapping == {"T7"}

\* a tenant no audit was started for; inFlight counts the scoring tasks that
\* have not settled, scored those of the audit that have, failure is what went
\* wrong in the audit
NoTask == [pc |-> "none", inFlight |-> 0, scored |-> 0, flagged |-> 0, failure |-> NULL]

NoFullRun ==
  [pc |-> "idle", selected |-> << >>, i |-> 1, totalAudited |-> 0, totalFlagged |-> 0,
   result |-> NULL]

\* slackApiCall is not running; attempts counts the requests it made, failed
\* those of them that were rate-limited or threw
NoCall ==
  [pc |-> "idle", endpoint |-> [name |-> NULL, cursor |-> 0], retries |-> 0,
   attempts |-> 0, failed |-> 0,
   data |-> [ok |-> FALSE, members |-> << >>, next_cursor |-> 0, presence |-> NULL]]

\* getGuests is not running; requested counts the pages it asked for
NoListing == [pc |-> "idle", cursor |-> 0, guests |-> << >>, requested |-> 0]

NoLookup == [pc |-> "idle", result |-> NULL]

NoAlert == [guestId |-> << >>, blocks |-> << >>]

NoClick == [pc |-> "idle", actions |-> << >>, handled |-> << >>]

\* no call of the Slack client, no alert, no interaction and no delivery
NoSlack ==
  /\ pages = << >>
  /\ call = NoCall
  /\ listing = NoListing
  /\ lookup = NoLookup
  /\ alert = NoAlert
  /\ click = NoClick
  /\ before = [h \in Handlers |-> {}]

\* every tenant has installed the app and no full run was started
NoCron ==
  /\ workspaces = [t \in TenantSet |-> [is_active |-> TRUE]]
  /\ cron = NoFullRun
  /\ task = [t \in TenantSet |-> NoTask]

\* no audit has run: the state of the audit's tables after the migrations
NoAudits ==
  /\ NoCron
  /\ NoSlack
  /\ guest_audits = {}
  /\ directory = [w \in AuditTenants |-> << >>]
  /\ run = [r \in AuditRuns |-> NoRun]
  /\ started = 0
  /\ settled = [w \in AuditTenants |-> NoSettled]
  /\ audit_runs = {}
  /\ purged = NoPurge

Init ==
  /\ stripe_events_history = {}
  /\ subscriptions = {}
  /\ req = [h \in Handlers |-> Idle]
  /\ catalog \in Catalogs
  /\ upserts = [e \in EventIds |-> 0]
  /\ faults = -1
  /\ NoAudits

\* the same, when the failures of the database, of Stripe's API and of the
\* platform are to end: at most MaxFaults of them happen
LiveInit ==
  /\ stripe_events_history = {}
  /\ subscriptions = {}
  /\ req = [h \in Handlers |-> Idle]
  /\ catalog \in Catalogs
  /\ upserts = [e \in EventIds |-> 0]
  /\ faults = MaxFaults
  /\ NoAudits

\* a database call, a Stripe API call or the platform fails
Fault ==
  /\ faults # 0
  /\ faults' = IF faults > 0 THEN faults - 1 ELSE faults

RowsOf(e) == {r \in stripe_events_history : r.stripe_event_id = e}

\* ------------------------------------------------------------ POST: signature
\* a check that the header is there, without verifying it
constructEventUnverified(s) == s # "missing"

\* lines 186-198: the stripe-signature header is there and verifies
\* lines 184-202: read the signature, verify it, call claimStripeEvent
\* (which takes nowIso and sends the insert)
constructEvent(s) == s = "valid"

Receive(h, e, s) ==
  /\ req[h].pc = "idle"
  /\ IF ~constructEvent(s)
       THEN req' = [req EXCEPT ![h] = [Idle EXCEPT !.pc = "done", !.ev = e, !.sig = s,
                                                    !.response = 400]]
       ELSE req' = [req EXCEPT ![h] = [Idle EXCEPT !.pc = "insert", !.ev = e, !.sig = s]]
  /\ UNCHANGED <<auditVars, cronVars, slackVars, stripe_events_history, subscriptions, catalog, upserts, faults>>

\* ------------------------------------------------------------ claimStripeEvent
Respond(h, status) ==
  [req[h] EXCEPT !.pc = "done", !.response = status, !.nowIso = 0, !.existing = NoExisting,
                 !.err = NULL, !.retrieves = 0, !.planPrice = NULL]

\* an insert into a table without the primary key
InsertRowNoKey(table, row) == table \cup {row}

\* lines 49-62: the insert; the primary key rejects a second row (23505)
InsertRow(table, row) ==
  IF \E r \in table : r.stripe_event_id = row.stripe_event_id
    THEN table
    ELSE table \cup {row}

Insert(h) ==
  /\ req[h].pc = "insert"
  /\ LET e == req[h].ev
         row == [stripe_event_id |-> e, status |-> "processing", attempts |-> 1,
                 last_error |-> NULL, processed_at |-> NULL, updated_at |-> req[h].nowIso]
         after == InsertRow(stripe_events_history, row)
     IN /\ stripe_events_history' = after
        /\ IF after # stripe_events_history
             THEN req' = [req EXCEPT ![h] = [@ EXCEPT !.pc = "reconcile",
                                                     !.claimResult = "claimed",
                                                     !.nowIso = 0]]
             ELSE req' = [req EXCEPT ![h] = [@ EXCEPT !.pc = "select"]]
  /\ UNCHANGED <<auditVars, cronVars, slackVars, subscriptions, catalog, upserts, faults>>

\* lines 64-66: the insert failed with another error than 23505
InsertError(h) ==
  /\ req[h].pc = "insert"
  /\ req' = [req EXCEPT ![h] = Respond(h, 500)]
  /\ Fault
  /\ UNCHANGED <<auditVars, cronVars, slackVars, stripe_events_history, subscriptions, catalog, upserts>>

\* lines 68-78: the select failed, or found no row
SelectError(h) ==
  /\ req[h].pc = "select"
  /\ req' = [req EXCEPT ![h] = Respond(h, 500)]
  /\ Fault
  /\ UNCHANGED <<auditVars, cronVars, slackVars, stripe_events_history, subscriptions, catalog, upserts>>

\* stale from the window on, instead of past it
staleProcessingAtWindow(existing) ==
  existing.status = "processing" /\ existing.updated_at >= PROCESSING_STALE_MS

\* lines 86-90
staleProcessing(existing) ==
  existing.status = "processing" /\ existing.updated_at > PROCESSING_STALE_MS

\* without the check for a processed row
DecideNoProcessedCheck(existing) ==
  IF existing.status = "failed" \/ staleProcessing(existing) THEN "reclaim"
  ELSE "in_flight"

\* without the retry of a failed row
DecideNoRetryOfFailed(existing) ==
  IF existing.status = "processed" THEN "already_processed"
  ELSE IF staleProcessing(existing) THEN "reclaim"
  ELSE "in_flight"

\* lines 82-92, 116: what the row that was read decides
Decide(existing) ==
  IF existing.status = "processed" THEN "already_processed"
  ELSE IF existing.status = "failed" \/ staleProcessing(existing) THEN "reclaim"
  ELSE "in_flight"

\* lines 68-92, 116 and 208-218: the select, and the answers that need no more
Select(h) ==
  /\ req[h].pc = "select"
  /\ \E existing \in RowsOf(req[h].ev) :
       LET d == Decide(existing)
       IN req' = [req EXCEPT ![h] =
                   IF d = "already_processed"
                     THEN [Respond(h, 200) EXCEPT !.claimResult = d]
                   ELSE IF d = "in_flight"
                     THEN [Respond(h, 409) EXCEPT !.claimResult = d]
                   ELSE [@ EXCEPT !.pc = "reclaim",
                                  !.existing = [status |-> existing.status,
                                                attempts |-> existing.attempts]]]
  /\ UNCHANGED <<auditVars, cronVars, slackVars, stripe_events_history, subscriptions, catalog, upserts, faults>>

NextAttempt(attempts) == IF attempts + 1 > MaxAttempts THEN MaxAttempts ELSE attempts + 1

\* lines 93-102: the reclaim update, of every row with this event id
Reclaimed(table, e, existing, nowIso) ==
  { IF r.stripe_event_id = e
      THEN [r EXCEPT !.status = "processing", !.attempts = NextAttempt(existing.attempts),
                     !.last_error = NULL, !.processed_at = NULL, !.updated_at = nowIso]
      ELSE r : r \in table }

Reclaim(h) ==
  /\ req[h].pc = "reclaim"
  /\ stripe_events_history' =
       Reclaimed(stripe_events_history, req[h].ev, req[h].existing, req[h].nowIso)
  /\ req' = [req EXCEPT ![h] = [@ EXCEPT !.pc = "reconcile", !.claimResult = "claimed",
                                          !.nowIso = 0, !.existing = NoExisting]]
  /\ UNCHANGED <<auditVars, cronVars, slackVars, subscriptions, catalog, upserts, faults>>

\* lines 104-106
ReclaimError(h) ==
  /\ req[h].pc = "reclaim"
  /\ req' = [req EXCEPT ![h] = Respond(h, 500)]
  /\ Fault
  /\ UNCHANGED <<auditVars, cronVars, slackVars, stripe_events_history, subscriptions, catalog, upserts>>

\* ------------------------------------------------------------ reconciliation
Goto(h, pc) == [req[h] EXCEPT !.pc = pc]

Throw(h, message) ==
  [req[h] EXCEPT !.pc = "markFailed", !.err = message, !.row = NoRow, !.retrieves = 0,
                 !.planPrice = NULL]

\* a resolution that never asks Stripe for the price
resolveCheckoutPlanMetadataOnly(session, retrieved) ==
  IF session.plan \in VALID_PAID_PLANS THEN session.plan ELSE "starter"

\* lines 152-182; retrieved is what stripe.subscriptions.retrieve answers when it is asked
resolveCheckoutPlan(session, retrieved) ==
  IF session.plan \in VALID_PAID_PLANS THEN session.plan
  ELSE IF session.subscription # NULL /\ mapPriceIdToPlan(retrieved.price) # NULL
    THEN mapPriceIdToPlan(retrieved.price)
  ELSE "starter"

\* lines 159-165: resolveCheckoutPlan asks Stripe only past an invalid metadata plan
asksPlan(session) == session.plan \notin VALID_PAID_PLANS /\ session.subscription # NULL

\* lines 164, 243-244: the calls of stripe.subscriptions.retrieve a checkout makes
retrieveCalls(session) ==
  (IF asksPlan(session) THEN 1 ELSE 0) + (IF session.subscription # NULL THEN 1 ELSE 0)

\* lines 242-258: the row a checkout upserts
checkoutRow(session, planAnswer, statusAnswer) ==
  [workspace_id |-> session.workspace,
   stripe_customer_id |-> session.customer,
   stripe_subscription_id |-> session.subscription,
   plan |-> resolveCheckoutPlan(session, planAnswer),
   status |-> IF session.subscription # NULL THEN statusAnswer.status
              ELSE SUBSCRIPTION_STATUS.ACTIVE]

\* a resolution that never reads the metadata
metadataWorkspaceIdIgnored(subscription) == NULL

\* line 289: subscription.metadata?.workspaceId ?? null
metadataWorkspaceId(subscription) == subscription.workspace

\* lines 273-275
isActive(subscription) ==
  subscription.status \in {SUBSCRIPTION_STATUS.ACTIVE, SUBSCRIPTION_STATUS.TRIALING}

\* a row whose plan follows the price whatever the status
subscriptionRowPlanOfPrice(subscription, workspaceId) ==
  [workspace_id |-> workspaceId,
   stripe_customer_id |-> subscription.customer,
   stripe_subscription_id |-> subscription.subscription,
   plan |-> mapPriceIdToPlan(subscription.price),
   status |-> subscription.status]

\* lines 286, 319-325: the row a subscription event upserts
subscriptionRow(subscription, workspaceId) ==
  [workspace_id |-> workspaceId,
   stripe_customer_id |-> subscription.customer,
   stripe_subscription_id |-> subscription.subscription,
   plan |-> IF isActive(subscription) THEN mapPriceIdToPlan(subscription.price) ELSE "free",
   status |-> subscription.status]

\* lines 220-246, 270-312, 342-344: the switch, up to its first database call
Reconcile(h) ==
  /\ req[h].pc = "reconcile"
  /\ LET event == catalog[req[h].ev]
     IN IF event.type = "checkout.session.completed"
          THEN IF event.workspace = NULL
                 THEN req' = [req EXCEPT ![h] = Goto(h, "markProcessed")]
                 ELSE \E planAnswer \in StripeRetrieve, statusAnswer \in StripeRetrieve :
                        req' = [req EXCEPT ![h] =
                                 [@ EXCEPT !.pc = "upsert",
                                           !.row = checkoutRow(event, planAnswer, statusAnswer),
                                           !.retrieves = retrieveCalls(event),
                                           !.planPrice = IF asksPlan(event)
                                                           THEN planAnswer.price ELSE NULL]]
        ELSE IF event.type \in {"customer.subscription.updated", "customer.subscription.deleted"}
          THEN IF isActive(event) /\ mapPriceIdToPlan(event.price) = NULL
                 THEN req' = [req EXCEPT ![h] = Throw(h, "Unknown Stripe price ID")]
               ELSE IF metadataWorkspaceId(event) = NULL /\ event.customer # NULL
                 THEN req' = [req EXCEPT ![h] = Goto(h, "lookup")]
               ELSE IF metadataWorkspaceId(event) = NULL
                 THEN req' = [req EXCEPT ![h] = Goto(h, "markProcessed")]
               ELSE req' = [req EXCEPT ![h] =
                             [@ EXCEPT !.pc = "upsert",
                                       !.row = subscriptionRow(event, metadataWorkspaceId(event))]]
        ELSE req' = [req EXCEPT ![h] = Goto(h, "markProcessed")]
  /\ UNCHANGED <<auditVars, cronVars, slackVars, stripe_events_history, subscriptions, catalog, upserts, faults>>

\* lines 164, 244: stripe.subscriptions.retrieve throws
RetrieveThrows(h) ==
  /\ req[h].pc = "reconcile"
  /\ LET event == catalog[req[h].ev]
     IN /\ event.type = "checkout.session.completed"
        /\ event.workspace # NULL
        /\ event.subscription # NULL
  /\ req' = [req EXCEPT ![h] = Throw(h, "Stripe API error")]
  /\ Fault
  /\ UNCHANGED <<auditVars, cronVars, slackVars, stripe_events_history, subscriptions, catalog, upserts>>

\* lines 291-312: the tenant by customer id; maybeSingle fails on several rows
Lookup(h) ==
  /\ req[h].pc = "lookup"
  /\ LET event == catalog[req[h].ev]
         found == {s \in subscriptions : s.stripe_customer_id = event.customer}
     IN IF Cardinality(found) > 1
          THEN req' = [req EXCEPT ![h] =
                        Throw(h, "Failed to resolve workspace by customer ID")]
        ELSE IF found = {}
          THEN req' = [req EXCEPT ![h] = Goto(h, "markProcessed")]
        ELSE \E s \in found :
               req' = [req EXCEPT ![h] =
                        [@ EXCEPT !.pc = "upsert",
                                  !.row = subscriptionRow(event, s.workspace_id)]]
  /\ UNCHANGED <<auditVars, cronVars, slackVars, stripe_events_history, subscriptions, catalog, upserts, faults>>

\* lines 298-300
LookupError(h) ==
  /\ req[h].pc = "lookup"
  /\ req' = [req EXCEPT ![h] = Throw(h, "Failed to resolve workspace by customer ID")]
  /\ Fault
  /\ UNCHANGED <<auditVars, cronVars, slackVars, stripe_events_history, subscriptions, catalog, upserts>>

\* an insert into a table without the unique index on workspace_id
UpsertedNoKey(table, row) == table \cup {row}

\* lines 249-260, 316-327: upsert with onConflict workspace_id
Upserted(table, row) ==
  {s \in table : s.workspace_id # row.workspace_id} \cup {row}

Counted(n) == IF n + 1 > MaxUpserts THEN MaxUpserts ELSE n + 1

Upsert(h) ==
  /\ req[h].pc = "upsert"
  /\ subscriptions' = Upserted(subscriptions, req[h].row)
  /\ upserts' = [upserts EXCEPT ![req[h].ev] = Counted(@)]
  /\ req' = [req EXCEPT ![h] = [@ EXCEPT !.pc = "markProcessed", !.row = NoRow,
                                          !.retrieves = 0, !.planPrice = NULL]]
  /\ UNCHANGED <<auditVars, cronVars, slackVars, stripe_events_history, catalog, faults>>

\* lines 262-264, 329-331
UpsertError(h) ==
  /\ req[h].pc = "upsert"
  /\ req' = [req EXCEPT ![h] = Throw(h, "Failed to upsert subscription")]
  /\ Fault
  /\ UNCHANGED <<auditVars, cronVars, slackVars, stripe_events_history, subscriptions, catalog, upserts>>

\* ------------------------------------------------------------ the outcome
\* lines 119-129
MarkedProcessed(table, e) ==
  { IF r.stripe_event_id = e
      THEN [r EXCEPT !.status = "processed", !.last_error = NULL,
                     !.processed_at = "set", !.updated_at = 0]
      ELSE r : r \in table }

\* lines 346-347
MarkProcessed(h) ==
  /\ req[h].pc = "markProcessed"
  /\ stripe_events_history' = MarkedProcessed(stripe_events_history, req[h].ev)
  /\ req' = [req EXCEPT ![h] = Respond(h, 200)]
  /\ UNCHANGED <<auditVars, cronVars, slackVars, subscriptions, catalog, upserts, faults>>

\* lines 131-133, 348: the update failed and markStripeEventProcessed throws
MarkProcessedError(h) ==
  /\ req[h].pc = "markProcessed"
  /\ req' = [req EXCEPT ![h] = Throw(h, "Failed to mark Stripe event as processed")]
  /\ Fault
  /\ UNCHANGED <<auditVars, cronVars, slackVars, stripe_events_history, subscriptions, catalog, upserts>>

\* an update that records the error text and leaves the status
MarkedFailedStatusKept(table, e, message) ==
  { IF r.stripe_event_id = e
      THEN [r EXCEPT !.last_error = message, !.updated_at = 0]
      ELSE r : r \in table }

\* lines 136-145; the error messages here are shorter than the 500 characters kept
MarkedFailed(table, e, message) ==
  { IF r.stripe_event_id = e
      THEN [r EXCEPT !.status = "failed", !.last_error = message, !.updated_at = 0]
      ELSE r : r \in table }

\* lines 349-352
MarkFailed(h) ==
  /\ req[h].pc = "markFailed"
  /\ stripe_events_history' = MarkedFailed(stripe_events_history, req[h].ev, req[h].err)
  /\ req' = [req EXCEPT ![h] = Respond(h, 500)]
  /\ UNCHANGED <<auditVars, cronVars, slackVars, subscriptions, catalog, upserts, faults>>

\* lines 147-149, 350-352: the update failed, which is only logged
MarkFailedError(h) ==
  /\ req[h].pc = "markFailed"
  /\ req' = [req EXCEPT ![h] = Respond(h, 500)]
  /\ Fault
  /\ UNCHANGED <<auditVars, cronVars, slackVars, stripe_events_history, subscriptions, catalog, upserts>>

\* the platform kills the request between two of its steps: no response, nothing
\* of the route runs for it any more, and the handler serves the next request
Crash(h) ==
  /\ req[h].pc \notin {"idle", "done"}
  /\ req' = [req EXCEPT ![h] = Idle]
  /\ Fault
  /\ UNCHANGED <<auditVars, cronVars, slackVars, stripe_events_history, subscriptions, catalog, upserts>>

\* the response is sent and the handler serves the next request
Recycle(h) ==
  /\ req[h].pc = "done"
  /\ req' = [req EXCEPT ![h] = Idle]
  /\ UNCHANGED <<auditVars, cronVars, slackVars, stripe_events_history, subscriptions, catalog, upserts, faults>>

\* ------------------------------------------------------------ the clock
Tick ==
  /\ stripe_events_history' =
       {[r EXCEPT !.updated_at = Later(@)] : r \in stripe_events_history}
  /\ req' = [h \in Handlers |->
              IF req[h].pc \in ClaimPcs THEN [req[h] EXCEPT !.nowIso = Later(@)] ELSE req[h]]
  /\ UNCHANGED <<auditVars, cronVars, slackVars, subscriptions, catalog, upserts, faults>>

Next ==
  \/ \E h \in Handlers, e \in EventIds, s \in {"valid", "invalid", "missing"} : Receive(h, e, s)
  \/ \E h \in Handlers : Insert(h)
  \/ \E h \in Handlers : InsertError(h)
  \/ \E h \in Handlers : Select(h)
  \/ \E h \in Handlers : SelectError(h)
  \/ \E h \in Handlers : Reclaim(h)
  \/ \E h \in Handlers : ReclaimError(h)
  \/ \E h \in Handlers : Reconcile(h)
  \/ \E h \in Handlers : RetrieveThrows(h)
  \/ \E h \in Handlers : Lookup(h)
  \/ \E h \in Handlers : LookupError(h)
  \/ \E h \in Handlers : Upsert(h)
  \/ \E h \in Handlers : UpsertError(h)
  \/ \E h \in Handlers : MarkProcessed(h)
  \/ \E h \in Handlers : MarkProcessedError(h)
  \/ \E h \in Handlers : MarkFailed(h)
  \/ \E h \in Handlers : MarkFailedError(h)
  \/ \E h \in Handlers : Crash(h)
  \/ \E h \in Handlers : Recycle(h)
  \/ Tick

Spec == Init /\ [][Next]_vars

\* what a request does when nothing fails
Progress(h) ==
  \/ Insert(h) \/ Select(h) \/ Reclaim(h) \/ Reconcile(h) \/ Lookup(h)
  \/ Upsert(h) \/ MarkProcessed(h) \/ MarkFailed(h) \/ Recycle(h)

\* The event loop runs every continuation that is ready, time passes, the
\* failures end (LiveInit), and the sender keeps delivering every event.
LiveSpec ==
  /\ LiveInit /\ [][Next]_vars
  /\ \A h \in Handlers : WF_vars(Progress(h))
  /\ WF_vars(Tick)
  /\ \A e \in EventIds : SF_vars(\E h \in Handlers : Receive(h, e, "valid"))

\* ------------------------------------------------------------ the reconciler
\* The reconciliation of two events of every kind the switch tells apart, for two
\* tenants, two customers and two subscriptions, with a database and a Stripe API
\* that answer every call.
ReconEventIds == {1, 2}

ReconPayloads ==
  { [type |-> "checkout.session.completed", workspace |-> "W1", customer |-> "cus_1",
     subscription |-> NULL, plan |-> "growth", price |-> NULL, status |-> NULL],
    [type |-> "checkout.session.completed", workspace |-> "W1", customer |-> "cus_1",
     subscription |-> "sub_1", plan |-> NULL, price |-> NULL, status |-> NULL],
    [type |-> "checkout.session.completed", workspace |-> "W2", customer |-> "cus_1",
     subscription |-> "sub_2", plan |-> "scale", price |-> NULL, status |-> NULL],
    [type |-> "checkout.session.completed", workspace |-> "W2", customer |-> "cus_2",
     subscription |-> NULL, plan |-> "pro", price |-> NULL, status |-> NULL],
    [type |-> "checkout.session.completed", workspace |-> NULL, customer |-> "cus_2",
     subscription |-> "sub_2", plan |-> "starter", price |-> NULL, status |-> NULL],
    [type |-> "customer.subscription.updated", workspace |-> NULL, customer |-> "cus_1",
     subscription |-> "sub_1", plan |-> NULL, price |-> STRIPE_PRICE_STARTER,
     status |-> "active"],
    [type |-> "customer.subscription.deleted", workspace |-> NULL, customer |-> "cus_1",
     subscription |-> "sub_1", plan |-> NULL, price |-> STRIPE_PRICE_GROWTH,
     status |-> "canceled"],
    [type |-> "customer.subscription.updated", workspace |-> "W2", customer |-> "cus_1",
     subscription |-> "sub_1", plan |-> NULL, price |-> "price_unknown",
     status |-> "trialing"],
    [type |-> "customer.subscription.updated", workspace |-> "W2", customer |-> "cus_1",
     subscription |-> "sub_2", plan |-> NULL, price |-> STRIPE_PRICE_SCALE,
     status |-> "past_due"],
    [type |-> "customer.subscription.deleted", workspace |-> "W1", customer |-> "cus_2",
     subscription |-> "sub_2", plan |-> NULL, price |-> NULL, status |-> "active"],
    [type |-> "customer.subscription.updated", workspace |-> "W1", customer |-> "cus_2",
     subscription |-> "sub_2", plan |-> NULL, price |-> STRIPE_PRICE_GROWTH,
     status |-> "trialing"],
    [type |-> "customer.subscription.updated", workspace |-> NULL, customer |-> NULL,
     subscription |-> "sub_1", plan |-> NULL, price |-> STRIPE_PRICE_SCALE,
     status |-> "active"],
    [type |-> "invoice.paid", workspace |-> "W1", customer |-> "cus_1",
     subscription |-> "sub_1", plan |-> NULL, price |-> NULL, status |-> NULL] }

ReconInit ==
  /\ stripe_events_history = {}
  /\ subscriptions = {}
  /\ req = [h \in Handlers |-> Idle]
  /\ catalog \in [ReconEventIds -> ReconPayloads]
  /\ upserts = [e \in ReconEventIds |-> 0]
  /\ faults = 0
  /\ NoAudits

ReconNext ==
  \/ \E h \in Handlers, e \in ReconEventIds : Receive(h, e, "valid")
  \/ \E h \in Handlers : Insert(h)
  \/ \E h \in Handlers : Select(h)
  \/ \E h \in Handlers : Reclaim(h)
  \/ \E h \in Handlers : Reconcile(h)
  \/ \E h \in Handlers : Lookup(h)
  \/ \E h \in Handlers : Upsert(h)
  \/ \E h \in Handlers : MarkProcessed(h)
  \/ \E h \in Handlers : MarkFailed(h)
  \/ \E h \in Handlers : Recycle(h)

ReconSpec == ReconInit /\ [][ReconNext]_vars

\* The same with the clock: the first event is one the switch leaves without a
\* write, the second is a checkout of the same customer or an event that fails.
RedeliveryInit ==
  /\ ReconInit
  /\ \/ catalog[1].type \notin {"checkout.session.completed",
                                 "customer.subscription.updated",
                                 "customer.subscription.deleted"}
     \/ catalog[1].workspace = NULL
  /\ catalog[2].workspace # NULL
  /\ catalog[2].customer = "cus_1"
  /\ catalog[2].plan = "growth" \/ catalog[2].price = "price_unknown"

RedeliveryNext == ReconNext \/ Tick

RedeliverySpec == RedeliveryInit /\ [][RedeliveryNext]_vars

\* ------------------------------------------------------------ the audit
cutoff == NowSeconds - ACTIVITY_WINDOW_SECONDS

\* a scoring that asks for every signal before it classifies
scoreGuestEager(guest, presence, lastMsgTs) ==
  [guest |-> guest.id,
   score |-> (IF guest.updated # 0 /\ guest.updated > cutoff THEN SCORE_PROFILE_UPDATED ELSE 0)
             + (IF presence = "active" THEN SCORE_PRESENCE_ACTIVE ELSE 0)
             + (IF lastMsgTs # 0 /\ lastMsgTs > cutoff THEN SCORE_LAST_MESSAGE ELSE 0),
   source |-> "profile_presence_message_check", presenceCalls |-> 1, messageCalls |-> 1]

\* audit.service.ts lines 184-219: one scoring task; presence and lastMsgTs are
\* what getUserPresence and getLastMessageTs answer if the task asks
scoreGuest(guest, presence, lastMsgTs) ==
  LET profile == IF guest.updated # 0 /\ guest.updated > cutoff
                   THEN SCORE_PROFILE_UPDATED ELSE 0
      withPresence == profile + (IF presence = "active" THEN SCORE_PRESENCE_ACTIVE ELSE 0)
      withMessage == withPresence
                     + (IF lastMsgTs # 0 /\ lastMsgTs > cutoff THEN SCORE_LAST_MESSAGE ELSE 0)
  IN IF profile >= MIN_ACTIVE_SCORE
       THEN [guest |-> guest.id, score |-> profile, source |-> "profile_check",
             presenceCalls |-> 0, messageCalls |-> 0]
     ELSE IF withPresence >= MIN_ACTIVE_SCORE
       THEN [guest |-> guest.id, score |-> withPresence, source |-> "profile_presence_check",
             presenceCalls |-> 1, messageCalls |-> 0]
     ELSE [guest |-> guest.id, score |-> withMessage,
           source |-> "profile_presence_message_check",
           presenceCalls |-> 1, messageCalls |-> 1]

\* lines 126-127
inactiveGuests(scoredGuests) ==
  SelectSeq(scoredGuests, LAMBDA sg : sg.score < MIN_ACTIVE_SCORE)

\* a filter that takes a score at the threshold for neither
activeGuestsAbove(scoredGuests) ==
  SelectSeq(scoredGuests, LAMBDA sg : sg.score > MIN_ACTIVE_SCORE)

activeGuests(scoredGuests) ==
  SelectSeq(scoredGuests, LAMBDA sg : sg.score >= MIN_ACTIVE_SCORE)

\* what Slack answers about a guest now (away and null for one it does not know)
Known(w, id) == {i \in DOMAIN directory[w] : directory[w][i].id = id}

presenceOf(w, id) ==
  IF Known(w, id) = {} THEN "away" ELSE directory[w][CHOOSE i \in Known(w, id) : TRUE].presence

lastMessageOf(w, id) ==
  IF Known(w, id) = {} THEN 0 ELSE directory[w][CHOOSE i \in Known(w, id) : TRUE].lastMsg

\* lines 233-241: the records flagGuests upserts; the database gives a new row
\* its id, its created_at and its updated_at, kept here as the days since then
records(workspaceId, guests, gen) ==
  [i \in DOMAIN guests |->
     [id |-> <<gen, i>>, workspace_id |-> workspaceId, slack_user_id |-> guests[i].guest,
      last_seen_source |-> guests[i].source, is_flagged |-> TRUE,
      action_taken |-> GUEST_ACTION.FLAGGED, created_age |-> 0, updated_age |-> 0]]

SameKey(a, b) == a.workspace_id = b.workspace_id /\ a.slack_user_id = b.slack_user_id

\* an upsert that leaves the action_taken of a row that is there
updatedRowDispositionKept(old, rec) ==
  [rec EXCEPT !.id = old.id, !.created_age = old.created_age, !.updated_age = 0,
              !.action_taken = old.action_taken]

\* part_016 lines 21-33: the update of the upsert keeps id and created_at of
\* the row, and the trigger guest_audits_updated_at sets updated_at to now
updatedRow(old, rec) ==
  [rec EXCEPT !.id = old.id, !.created_age = old.created_age, !.updated_age = 0]

\* an insert into a table without the unique index on (workspace_id, slack_user_id)
GuestsUpsertedNoKey(table, recs) == table \cup {recs[i] : i \in DOMAIN recs}

\* lines 243-245: upsert with onConflict workspace_id,slack_user_id; a row that
\* is there keeps its id, and two records of one key make the statement fail
GuestsUpserted(table, recs) ==
  IF \E i, j \in DOMAIN recs : i # j /\ SameKey(recs[i], recs[j])
    THEN table
    ELSE {row \in table : ~\E i \in DOMAIN recs : SameKey(row, recs[i])}
         \cup { IF \E row \in table : SameKey(row, recs[i])
                  THEN updatedRow(CHOOSE row \in table : SameKey(row, recs[i]), recs[i])
                  ELSE recs[i] : i \in DOMAIN recs }

\* a delete that forgets the filter on slack_user_id
ClearedWholeTenant(table, workspaceId, activeGuestIds) ==
  {row \in table : row.workspace_id # workspaceId}

\* lines 258-262: the delete of clearActiveGuests
Cleared(table, workspaceId, activeGuestIds) ==
  {row \in table : ~(row.workspace_id = workspaceId /\ row.slack_user_id \in activeGuestIds)}

KeysOf(w) == {row.slack_user_id : row \in {x \in guest_audits : x.workspace_id = w}}

Running(g) == run[g].pc \notin {"idle", "done"}

\* the audits of tenant w that are under way lose their claim to be undisturbed
Disturbed(w) ==
  [g \in AuditRuns |->
     IF run[g].ws = w /\ Running(g) THEN [run[g] EXCEPT !.clean = FALSE] ELSE run[g]]

\* lines 114-120: auditWorkspace starts and asks for the guest list
AuditWorkspace(r, w) ==
  /\ run[r].pc = "idle"
  /\ \A g \in AuditRuns : g < r => run[g].pc # "idle"
  /\ started < MaxRuns
  /\ LET overlaps == \E g \in AuditRuns : g # r /\ run[g].ws = w /\ Running(g)
     IN /\ run' = [Disturbed(w) EXCEPT ![r] =
                     [NoRun EXCEPT !.pc = "list", !.ws = w, !.gen = started + 1,
                                   !.clean = ~overlaps,
                                   !.rerun = settled[w].known /\ ~overlaps]]
        /\ settled' = IF overlaps THEN [settled EXCEPT ![w] = NoSettled] ELSE settled
  /\ started' = started + 1
  /\ UNCHANGED <<webhookVars, cronVars, slackVars, purged, audit_runs, guest_audits, directory>>

\* line 120 and slack.ts 158-192: the list of guests, as users.list has it now
GetGuests(r) ==
  /\ run[r].pc = "list"
  /\ LET listed == directory[run[r].ws]
     IN run' = [run EXCEPT ![r] =
                  [@ EXCEPT !.pc = IF listed = << >> THEN "write" ELSE "score",
                            !.guests = [i \in DOMAIN listed |->
                                          [id |-> listed[i].id, updated |-> listed[i].updated]]]]
  /\ UNCHANGED <<webhookVars, cronVars, slackVars, purged, audit_runs, guest_audits, directory, started, settled>>

\* slack.ts 175-177, lines 160-166: users.list fails and auditWorkspace throws
GetGuestsFails(r) ==
  /\ run[r].pc = "list"
  /\ run' = [run EXCEPT ![r] =
               [NoRun EXCEPT !.pc = "done", !.ws = run[r].ws, !.gen = run[r].gen,
                             !.outcome = "rejected"]]
  /\ UNCHANGED <<webhookVars, cronVars, slackVars, purged, audit_runs, guest_audits, directory, started, settled>>

\* lines 43-53 and 221: withConcurrency runs the next batch of tasks to its end
ScoreBatch(r) ==
  /\ run[r].pc = "score"
  /\ LET done == Len(run[r].scored)
         last == IF done + GUEST_SCORING_CONCURRENCY > Len(run[r].guests)
                   THEN Len(run[r].guests) ELSE done + GUEST_SCORING_CONCURRENCY
         batch == [k \in 1..(last - done) |->
                     LET guest == run[r].guests[done + k]
                     IN scoreGuest(guest, presenceOf(run[r].ws, guest.id),
                                   lastMessageOf(run[r].ws, guest.id))]
     IN run' = [run EXCEPT ![r] =
                  [@ EXCEPT !.scored = @ \o batch,
                            !.pc = IF last = Len(run[r].guests) THEN "write" ELSE "score"]]
  /\ UNCHANGED <<webhookVars, cronVars, slackVars, purged, audit_runs, guest_audits, directory, started, settled>>

\* an alert for every guest that was scored
alertedAll(scoredGuests) == [i \in DOMAIN scoredGuests |-> scoredGuests[i].guest]

\* lines 136-140: the guests sendInactiveAlert is called for
alerted(scoredGuests) ==
  LET inactive == inactiveGuests(scoredGuests)
  IN [i \in DOMAIN inactive |-> inactive[i].guest]

\* an audit that goes on as soon as one of the two writes is over
WrittenEither(r, flagged, cleared) ==
  LET inactive == inactiveGuests(run[r].scored)
      over == flagged \/ cleared
  IN [run[r] EXCEPT !.flagged = flagged, !.cleared = cleared,
                    !.pc = IF ~over THEN "write"
                           ELSE IF inactive = << >> THEN "record" ELSE "alert",
                    !.notified = IF over THEN alerted(run[r].scored) ELSE << >>,
                    !.pending = IF over THEN Len(inactive) ELSE 0]

\* lines 130-140: once the Promise.all of the two writes is over, the map of line
\* 137 calls sendInactiveAlert for every inactive guest, and each call runs
\* up to its first request; with no inactive guest the snapshot comes next
Written(r, flagged, cleared) ==
  LET inactive == inactiveGuests(run[r].scored)
      over == flagged /\ cleared
  IN [run[r] EXCEPT !.flagged = flagged, !.cleared = cleared,
                    !.pc = IF ~over THEN "write"
                           ELSE IF inactive = << >> THEN "record" ELSE "alert",
                    !.notified = IF over THEN alerted(run[r].scored) ELSE << >>,
                    !.pending = IF over THEN Len(inactive) ELSE 0]

\* a write whose error is thrown: auditWorkspace rejects
writeFailedThrown(next) ==
  [next EXCEPT !.pc = "done", !.outcome = "rejected", !.notified = << >>, !.pending = 0]

\* lines 247-249 and 264-266: the error of a write is logged, and the audit
\* goes on as after a write that succeeded
writeFailed(next) == next

\* lines 226-250, run by the Promise.all of lines 130-133
FlagGuests(r) ==
  /\ run[r].pc = "write" /\ ~run[r].flagged
  /\ LET guests == inactiveGuests(run[r].scored)
     IN guest_audits' =
          IF guests = << >> THEN guest_audits
          ELSE GuestsUpserted(guest_audits, records(run[r].ws, guests, run[r].gen))
  /\ run' = [run EXCEPT ![r] = Written(r, TRUE, run[r].cleared)]
  /\ UNCHANGED <<webhookVars, cronVars, slackVars, purged, audit_runs, directory, started, settled>>

\* lines 247-249: the upsert fails, which is only logged
FlagGuestsError(r) ==
  /\ run[r].pc = "write" /\ ~run[r].flagged
  /\ inactiveGuests(run[r].scored) # << >>
  /\ run' = [Disturbed(run[r].ws) EXCEPT ![r] =
               writeFailed([Written(r, TRUE, run[r].cleared) EXCEPT !.clean = FALSE])]
  /\ settled' = [settled EXCEPT ![run[r].ws] = NoSettled]
  /\ UNCHANGED <<webhookVars, cronVars, slackVars, purged, audit_runs, guest_audits, directory, started>>

\* lines 252-267, run by the Promise.all of lines 130-133
ClearActiveGuests(r) ==
  /\ run[r].pc = "write" /\ ~run[r].cleared
  /\ LET guests == activeGuests(run[r].scored)
     IN guest_audits' =
          IF guests = << >> THEN guest_audits
          ELSE Cleared(guest_audits, run[r].ws, {guests[i].guest : i \in DOMAIN guests})
  /\ run' = [run EXCEPT ![r] = Written(r, run[r].flagged, TRUE)]
  /\ UNCHANGED <<webhookVars, cronVars, slackVars, purged, audit_runs, directory, started, settled>>

\* lines 264-266: the delete fails, which is only logged
ClearActiveGuestsError(r) ==
  /\ run[r].pc = "write" /\ ~run[r].cleared
  /\ activeGuests(run[r].scored) # << >>
  /\ run' = [Disturbed(run[r].ws) EXCEPT ![r] =
               writeFailed([Written(r, run[r].flagged, TRUE) EXCEPT !.clean = FALSE])]
  /\ settled' = [settled EXCEPT ![run[r].ws] = NoSettled]
  /\ UNCHANGED <<webhookVars, cronVars, slackVars, purged, audit_runs, guest_audits, directory, started>>

\* an alert whose failure makes auditWorkspace throw
AlertSettledOrThrown(r, failed) ==
  IF failed
    THEN [NoRun EXCEPT !.pc = "done", !.ws = run[r].ws, !.gen = run[r].gen,
                       !.alertFailed = TRUE, !.outcome = "rejected"]
    ELSE [run[r] EXCEPT !.pending = @ - 1,
                        !.pc = IF run[r].pending = 1 THEN "record" ELSE "alert"]

\* one alert settles; the Promise.allSettled of lines 136-140 is over with the last
AlertSettled(r, failed) ==
  [run[r] EXCEPT !.pending = @ - 1, !.alertFailed = @ \/ failed,
                 !.pc = IF run[r].pending = 1 THEN "record" ELSE "alert"]

\* lines 269-285: the direct message is sent and the alert logged
SendInactiveAlert(r) ==
  /\ run[r].pc = "alert" /\ run[r].pending > 0
  /\ run' = [run EXCEPT ![r] = AlertSettled(r, FALSE)]
  /\ UNCHANGED <<webhookVars, cronVars, slackVars, purged, audit_runs, guest_audits, directory, started, settled>>

\* lines 286-291: the send or the logging of the alert throws, which is caught
SendInactiveAlertFails(r) ==
  /\ run[r].pc = "alert" /\ run[r].pending > 0
  /\ run' = [run EXCEPT ![r] = AlertSettled(r, TRUE)]
  /\ UNCHANGED <<webhookVars, cronVars, slackVars, purged, audit_runs, guest_audits, directory, started, settled>>

\* line 121: the seat cost of the tenant; the first tenant has none of its own
costPerSeat(w) == IF w = "W1" THEN DEFAULT_SEAT_COST_USD ELSE 8

\* lines 143-148: the snapshot of the audit; the database gives the row its id
runData(r) ==
  LET inactive == Len(inactiveGuests(run[r].scored))
  IN [id |-> Cardinality(audit_runs) + 1, created_age |-> 0, workspace_id |-> run[r].ws,
      workspace_guest_count |-> Len(run[r].scored),
      workspace_inactive_count |-> inactive,
      workspace_estimated_waste |-> inactive * costPerSeat(run[r].ws)]

\* lines 151-158: auditWorkspace returns the number of inactive guests
Returned(r) ==
  [run[r] EXCEPT !.pc = "done", !.guestCount = Len(run[r].scored),
                 !.inactiveCount = Len(inactiveGuests(run[r].scored)),
                 !.guests = << >>, !.scored = << >>, !.outcome = "fulfilled"]

\* lines 142-159: the audit_runs snapshot; the audit of the tenant is over
RecordRun(r) ==
  /\ run[r].pc = "record"
  /\ audit_runs' = audit_runs \cup {runData(r)}
  /\ run' = [run EXCEPT ![r] = Returned(r)]
  /\ settled' = [settled EXCEPT ![run[r].ws] =
                   IF run[r].clean THEN [known |-> TRUE, keys |-> KeysOf(run[r].ws)]
                   ELSE NoSettled]
  /\ UNCHANGED <<webhookVars, cronVars, slackVars, purged, guest_audits, directory, started>>

\* line 149: the insert fails; its result is not looked at, and the audit of
\* the tenant is over all the same
RecordRunError(r) ==
  /\ run[r].pc = "record"
  /\ run' = [run EXCEPT ![r] = Returned(r)]
  /\ settled' = [settled EXCEPT ![run[r].ws] =
                   IF run[r].clean THEN [known |-> TRUE, keys |-> KeysOf(run[r].ws)]
                   ELSE NoSettled]
  /\ UNCHANGED <<webhookVars, cronVars, slackVars, purged, audit_runs, guest_audits, directory, started>>

\* the slot is free for the next audit
AuditReturns(r) ==
  /\ run[r].pc = "done"
  /\ run' = [run EXCEPT ![r] = NoRun]
  /\ UNCHANGED <<webhookVars, cronVars, slackVars, purged, audit_runs, guest_audits, directory, started, settled>>

\* a guest posts a message: from now on getLastMessageTs finds one
GuestPosts(w, i) ==
  /\ i \in DOMAIN directory[w]
  /\ <<w, directory[w][i].id>> \in Posters
  /\ directory[w][i].lastMsg = 0
  /\ directory' = [directory EXCEPT ![w][i].lastMsg = NowSeconds - 2]
  /\ run' = Disturbed(w)
  /\ settled' = [settled EXCEPT ![w] = NoSettled]
  /\ UNCHANGED <<webhookVars, cronVars, slackVars, purged, audit_runs, guest_audits, started>>

\* the tables are empty, the first tenant has one of the guest lists and the
\* second tenant one guest with the id of a guest of the first
AuditInit ==
  /\ stripe_events_history = {}
  /\ subscriptions = {}
  /\ req = [h \in Handlers |-> Idle]
  /\ catalog = [e \in EventIds |-> Payloads[1]]
  /\ upserts = [e \in EventIds |-> 0]
  /\ faults = 0
  /\ NoCron
  /\ NoSlack
  /\ guest_audits = {}
  /\ directory \in {[w \in AuditTenants |->
                       IF w = "W1" THEN d ELSE <<Guest(1, 0, "away", 0)>>] : d \in Directories}
  /\ run = [r \in AuditRuns |-> NoRun]
  /\ started = 0
  /\ settled = [w \in AuditTenants |-> NoSettled]
  /\ audit_runs = {}
  /\ purged = NoPurge

AuditNext ==
  \/ \E r \in AuditRuns, w \in AuditTenants : AuditWorkspace(r, w)
  \/ \E r \in AuditRuns : GetGuests(r)
  \/ \E r \in AuditRuns : GetGuestsFails(r)
  \/ \E r \in AuditRuns : ScoreBatch(r)
  \/ \E r \in AuditRuns : FlagGuests(r)
  \/ \E r \in AuditRuns : FlagGuestsError(r)
  \/ \E r \in AuditRuns : ClearActiveGuests(r)
  \/ \E r \in AuditRuns : ClearActiveGuestsError(r)
  \/ \E r \in AuditRuns : SendInactiveAlert(r)
  \/ \E r \in AuditRuns : RecordRun(r)
  \/ \E r \in AuditRuns : AuditReturns(r)
  \/ \E w \in AuditTenants, i \in 1..(GUEST_SCORING_CONCURRENCY + 1) : GuestPosts(w, i)

AuditSpec == AuditInit /\ [][AuditNext]_vars

\* ------------------------------------------------------------ the audit's alerts and snapshot
\* the guest lists of the first tenant when the alerts and the snapshot may fail
SnapshotDirectories ==
  {<< >>, <<Guest(1, 0, "away", 0)>>, <<Guest(1, NowSeconds - 1, "away", 0)>>,
   <<Guest(1, 0, "active", 0), Guest(2, NowSeconds - 1, "away", 0)>>,
   <<Guest(1, 0, "active", 0), Guest(2, 0, "away", 0)>>}

SnapshotInit ==
  /\ stripe_events_history = {}
  /\ subscriptions = {}
  /\ req = [h \in Handlers |-> Idle]
  /\ catalog = [e \in EventIds |-> Payloads[1]]
  /\ upserts = [e \in EventIds |-> 0]
  /\ faults = 0
  /\ NoCron
  /\ NoSlack
  /\ guest_audits = {}
  /\ directory \in {[w \in AuditTenants |->
                       IF w = "W1" THEN d ELSE <<Guest(1, 0, "away", 0)>>] :
                     d \in SnapshotDirectories}
  /\ run = [r \in AuditRuns |-> NoRun]
  /\ started = 0
  /\ settled = [w \in AuditTenants |-> NoSettled]
  /\ audit_runs = {}
  /\ purged = NoPurge

SnapshotNext ==
  \/ AuditNext
  \/ \E r \in AuditRuns : SendInactiveAlertFails(r)
  \/ \E r \in AuditRuns : RecordRunError(r)

SnapshotSpec == SnapshotInit /\ [][SnapshotNext]_vars

\* ------------------------------------------------------------ the audits that fail
\* line 119: decrypt throws; the audit of the tenant is over before its first await
DecryptThrows(r, w) ==
  /\ run[r].pc = "idle"
  /\ \A g \in AuditRuns : g < r => run[g].pc # "idle"
  /\ started < MaxRuns
  /\ run' = [run EXCEPT ![r] = [NoRun EXCEPT !.pc = "done", !.ws = w, !.gen = started + 1,
                                              !.outcome = "rejected"]]
  /\ started' = started + 1
  /\ UNCHANGED <<webhookVars, cronVars, slackVars, purged, audit_runs, guest_audits, directory, settled>>

\* lines 50, 202 and 215: a scoring task of the batch throws, Promise.all
\* rejects, and scoreGuests and auditWorkspace with it
ScoreBatchFails(r) ==
  /\ run[r].pc = "score"
  /\ run' = [run EXCEPT ![r] = [@ EXCEPT !.pc = "done", !.outcome = "rejected",
                                         !.guests = << >>, !.scored = << >>]]
  /\ UNCHANGED <<webhookVars, cronVars, slackVars, purged, audit_runs, guest_audits, directory, started, settled>>

FailureNext ==
  \/ AuditNext
  \/ \E r \in AuditRuns, w \in AuditTenants : DecryptThrows(r, w)
  \/ \E r \in AuditRuns : ScoreBatchFails(r)

FailureSpec == SnapshotInit /\ [][FailureNext]_vars

\* ------------------------------------------------------------ the retention purge
\* a purge that goes by the day the row was created
expiredByCreation(row) == row.created_age > RETENTION_DAYS

\* part_016 lines 49-50: updated_at < NOW() - INTERVAL '90 days'
expired(row) == row.updated_age > RETENTION_DAYS

\* the age of a row some days later; DayCap stands for every age from DayCap on
DayCap == RETENTION_DAYS + TickDays

Older(age) == IF age + TickDays > DayCap THEN DayCap ELSE age + TickDays

\* days pass between two audits
DaysPass ==
  /\ \A r \in AuditRuns : run[r].pc = "idle"
  /\ guest_audits' = {[row EXCEPT !.created_age = Older(@), !.updated_age = Older(@)] :
                        row \in guest_audits}
  /\ audit_runs' = {[row EXCEPT !.created_age = Older(@)] : row \in audit_runs}
  /\ UNCHANGED <<webhookVars, cronVars, slackVars, directory, run, started, settled, purged>>

\* part_016 lines 41-63: the daily purge_old_data. The guest_audits rows not
\* updated for 90 days go; of the audit_runs rows go those older than 12
\* months, which are some of the rows of the age DayCap; stripe_events_history
\* is empty while the webhook is not called and events is not kept here.
purge_old_data(victims) ==
  /\ stripe_events_history = {}
  /\ guest_audits' = {row \in guest_audits : ~expired(row)}
  /\ \A row \in victims : row.created_age = DayCap
  /\ audit_runs' = audit_runs \ victims
  /\ purged' = [deleted |-> guest_audits \ guest_audits', kept |-> guest_audits']
  /\ UNCHANGED <<webhookVars, cronVars, slackVars, directory, run, started, settled>>

\* one tenant with one inactive guest, audited again and again
RetentionInit ==
  /\ stripe_events_history = {}
  /\ subscriptions = {}
  /\ req = [h \in Handlers |-> Idle]
  /\ catalog = [e \in EventIds |-> Payloads[1]]
  /\ upserts = [e \in EventIds |-> 0]
  /\ faults = 0
  /\ NoCron
  /\ NoSlack
  /\ guest_audits = {}
  /\ directory = [w \in AuditTenants |-> <<Guest(1, 0, "away", 0)>>]
  /\ run = [r \in AuditRuns |-> NoRun]
  /\ started = 0
  /\ settled = [w \in AuditTenants |-> NoSettled]
  /\ audit_runs = {}
  /\ purged = NoPurge

RetentionNext ==
  \/ AuditNext
  \/ DaysPass
  \/ \E victims \in SUBSET audit_runs : purge_old_data(victims)

RetentionSpec == RetentionInit /\ [][RetentionNext]_vars

\* ------------------------------------------------------------ the full audit run
\* a query that forgets the filter on the status
eligibleUnfiltered(status) == TRUE

\* audit.service.ts line 102: .in('status', ['active', 'trialing'])
eligible(status) == status \in {SUBSCRIPTION_STATUS.ACTIVE, SUBSCRIPTION_STATUS.TRIALING}

\* lines 97-112: the workspaces joined to the subscriptions rows the filter
\* lets through; every tenant has its workspaces row
fetched(table) ==
  SelectSeq(CronTenants,
            LAMBDA t : \E row \in table : row.workspace_id = t /\ eligible(row.status))

\* a run that audits all the workspaces that are left at once
batchWhole(list, i) == {list[k] : k \in i..Len(list)}

\* line 75: workspaces.slice(i, i + AUDIT.WORKSPACE_BATCH_SIZE)
batchOf(list, i) ==
  {list[k] : k \in {j \in i..(i + WORKSPACE_BATCH_SIZE - 1) : j <= Len(list)}}

\* a Promise.all: it throws with the first promise that rejects
allOrThrow(pcs) ==
  IF \E t \in DOMAIN pcs : pcs[t] = "rejected" THEN "thrown"
  ELSE IF \A t \in DOMAIN pcs : pcs[t] = "fulfilled" THEN "settled"
  ELSE "pending"

\* lines 76-78: Promise.allSettled waits for every promise and never throws
allSettled(pcs) ==
  IF \A t \in DOMAIN pcs : pcs[t] \in {"fulfilled", "rejected"} THEN "settled" ELSE "pending"

RECURSIVE Sum(_, _)
Sum(f, set) ==
  IF set = {} THEN 0
  ELSE LET x == CHOOSE y \in set : TRUE IN f[x] + Sum(f, set \ {x})

\* lines 60-67: the eligible workspaces are fetched; with none the run returns
FetchActiveWorkspaces ==
  /\ cron.pc = "idle"
  /\ LET data == fetched(subscriptions)
     IN cron' = IF data = << >>
                  THEN [cron EXCEPT !.pc = "done", !.result = "ok"]
                  ELSE [cron EXCEPT !.pc = "batch", !.selected = data]
  /\ UNCHANGED <<webhookVars, auditVars, slackVars, workspaces, task>>

\* lines 103-105: the query fails and the run throws
FetchActiveWorkspacesFails ==
  /\ cron.pc = "idle"
  /\ cron' = [cron EXCEPT !.pc = "done", !.result = "error"]
  /\ UNCHANGED <<webhookVars, auditVars, slackVars, workspaces, task>>

\* lines 74-78: auditWorkspace is called for every workspace of the batch
StartBatch ==
  /\ cron.pc = "batch"
  /\ task' = [t \in TenantSet |->
                IF t \in batchOf(cron.selected, cron.i)
                  THEN [NoTask EXCEPT !.pc = "list"] ELSE task[t]]
  /\ cron' = [cron EXCEPT !.pc = "await"]
  /\ UNCHANGED <<webhookVars, auditVars, slackVars, workspaces>>

Rejected(t, failure) == [task EXCEPT ![t].pc = "rejected", ![t].failure = failure]

\* line 119: decrypt throws
DecryptFails(t) ==
  /\ task[t].pc = "list" /\ t \in Fragile
  /\ task' = Rejected(t, "decrypt")
  /\ UNCHANGED <<webhookVars, auditVars, slackVars, workspaces, cron>>

\* line 120: users.list answers with the token of a workspace that has the app
ListGuests(t) ==
  /\ task[t].pc = "list" /\ workspaces[t].is_active
  /\ task' = [task EXCEPT ![t].pc = IF Estate[t].guests = 0 THEN "persist" ELSE "score"]
  /\ UNCHANGED <<webhookVars, auditVars, slackVars, workspaces, cron>>

\* line 120, slack.ts 158-192: users.list fails, as it does with the token
\* Slack revoked when the app was uninstalled
ListGuestsFails(t) ==
  /\ task[t].pc = "list" /\ (t \in Fragile \/ ~workspaces[t].is_active)
  /\ task' = Rejected(t, "directory")
  /\ UNCHANGED <<webhookVars, auditVars, slackVars, workspaces, cron>>

\* lines 48-50: withConcurrency starts the tasks of the next batch
StartScoring(t) ==
  /\ task[t].pc = "score" /\ task[t].inFlight = 0
  /\ LET left == Estate[t].guests - task[t].scored
     IN task' = [task EXCEPT ![t].inFlight =
                   IF left > GUEST_SCORING_CONCURRENCY THEN GUEST_SCORING_CONCURRENCY ELSE left]
  /\ UNCHANGED <<webhookVars, auditVars, slackVars, workspaces, cron>>

\* lines 184-219: a scoring task returns; with the last of the last batch the
\* scoring is over. A task of an audit that has thrown returns to no one.
ScoringTaskSettles(t) ==
  /\ task[t].inFlight > 0
  /\ task' = [task EXCEPT ![t] =
        IF task[t].pc = "score"
          THEN [@ EXCEPT !.inFlight = @ - 1, !.scored = @ + 1,
                         !.pc = IF task[t].scored + 1 = Estate[t].guests
                                  THEN "persist" ELSE "score"]
          ELSE [@ EXCEPT !.inFlight = @ - 1]]
  /\ UNCHANGED <<webhookVars, auditVars, slackVars, workspaces, cron>>

\* slack.ts 83-90, line 50: a Slack call of a scoring task throws, the
\* Promise.all of the batch and with it auditWorkspace throw, and the other
\* tasks of the batch run on
ScoringTaskFails(t) ==
  /\ task[t].pc = "score" /\ task[t].inFlight > 0 /\ t \in Fragile
  /\ task' = [task EXCEPT ![t].pc = "rejected", ![t].failure = "directory",
                          ![t].inFlight = @ - 1]
  /\ UNCHANGED <<webhookVars, auditVars, slackVars, workspaces, cron>>

\* lines 126-158: the writes, the alerts and the snapshot; auditWorkspace
\* returns the number of inactive guests
Persist(t) ==
  /\ task[t].pc = "persist"
  /\ task' = [task EXCEPT ![t].pc = "fulfilled", ![t].flagged = Estate[t].inactive]
  /\ UNCHANGED <<webhookVars, auditVars, slackVars, workspaces, cron>>

\* lines 247-249, 264-266, 149: a write of the audit fails, which is logged or
\* not looked at; auditWorkspace returns as if it had not
PersistError(t) ==
  /\ task[t].pc = "persist" /\ t \in Fragile
  /\ task' = [task EXCEPT ![t].pc = "fulfilled", ![t].flagged = Estate[t].inactive,
                          ![t].failure = "database"]
  /\ UNCHANGED <<webhookVars, auditVars, slackVars, workspaces, cron>>

\* lines 76-90: the batch has settled; its fulfilled audits are counted and
\* the next batch, if there is one, is due
CollectBatch ==
  /\ cron.pc = "await"
  /\ LET batch == batchOf(cron.selected, cron.i)
         outcome == allSettled([t \in batch |-> task[t].pc])
         fulfilled == {t \in batch : task[t].pc = "fulfilled"}
         next == cron.i + WORKSPACE_BATCH_SIZE
     IN /\ outcome # "pending"
        /\ cron' =
             IF outcome = "thrown"
               THEN [cron EXCEPT !.pc = "done", !.result = "error"]
               ELSE [cron EXCEPT
                       !.totalAudited = @ + Cardinality(fulfilled),
                       !.totalFlagged = @ + Sum([t \in fulfilled |-> task[t].flagged],
                                                fulfilled),
                       !.i = next,
                       !.pc = IF next > Len(cron.selected) THEN "done" ELSE "batch",
                       !.result = IF next > Len(cron.selected) THEN "ok" ELSE NULL]
  /\ UNCHANGED <<webhookVars, auditVars, slackVars, workspaces, task>>

\* slack-event.service.ts lines 48-66: the app_uninstalled event of a tenant
handleAppUninstalled(t) ==
  /\ workspaces[t].is_active
  /\ workspaces' = [workspaces EXCEPT ![t].is_active = FALSE]
  /\ UNCHANGED <<webhookVars, auditVars, slackVars, cron, task>>

SubscriptionOf(t, status) ==
  [workspace_id |-> t, stripe_customer_id |-> "cus_1", stripe_subscription_id |-> "sub_1",
   plan |-> "starter", status |-> status]

\* the webhook writes the new status of a tenant's subscription
SubscriptionChanges(t, status) ==
  /\ \E row \in subscriptions : row.workspace_id = t /\ row.status # status
  /\ subscriptions' = Upserted(subscriptions, SubscriptionOf(t, status))
  /\ UNCHANGED <<stripe_events_history, req, catalog, upserts, faults, auditVars, cronVars, slackVars>>

\* six tenants are eligible, one has canceled, one is past due and one has no
\* subscription
CronInit ==
  /\ stripe_events_history = {}
  /\ subscriptions =
       {SubscriptionOf(CronTenants[k],
                       IF k = 7 THEN SUBSCRIPTION_STATUS.CANCELED
                       ELSE IF k = 8 THEN "past_due"
                       ELSE IF k % 2 = 0 THEN SUBSCRIPTION_STATUS.TRIALING
                       ELSE SUBSCRIPTION_STATUS.ACTIVE) : k \in 1..8}
  /\ req = [h \in Handlers |-> Idle]
  /\ catalog = [e \in EventIds |-> Payloads[1]]
  /\ upserts = [e \in EventIds |-> 0]
  /\ faults = 0
  /\ NoAudits

CronNext ==
  \/ FetchActiveWorkspaces
  \/ FetchActiveWorkspacesFails
  \/ StartBatch
  \/ \E t \in TenantSet : DecryptFails(t)
  \/ \E t \in TenantSet : ListGuests(t)
  \/ \E t \in TenantSet : ListGuestsFails(t)
  \/ \E t \in TenantSet : StartScoring(t)
  \/ \E t \in TenantSet : ScoringTaskSettles(t)
  \/ \E t \in TenantSet : ScoringTaskFails(t)
  \/ \E t \in TenantSet : Persist(t)
  \/ \E t \in TenantSet : PersistError(t)
  \/ CollectBatch
  \/ \E t \in Uninstallers : handleAppUninstalled(t)
  \/ \E t \in Flapping, status \in {SUBSCRIPTION_STATUS.ACTIVE, SUBSCRIPTION_STATUS.CANCELED} :
       SubscriptionChanges(t, status)

CronSpec == CronInit /\ [][CronNext]_vars

\* ------------------------------------------------------------ the Slack client
\* SLACK_API.MAX_RETRIES
MAX_RETRIES == 3

\* the pages a listing has at most
MaxPages == 3

\* a member of users.list
Member(id, deleted, restricted, ultra, bot) ==
  [id |-> id, deleted |-> deleted, is_restricted |-> restricted,
   is_ultra_restricted |-> ultra, is_bot |-> bot]

\* the member lists a page may carry: none, a guest and a full member, a
\* deleted guest with a bot and a single-channel guest, one guest
PageKinds ==
  {<< >>,
   <<Member(1, FALSE, TRUE, FALSE, FALSE), Member(2, FALSE, FALSE, FALSE, FALSE)>>,
   <<Member(3, TRUE, TRUE, FALSE, FALSE), Member(4, FALSE, TRUE, FALSE, TRUE),
     Member(5, FALSE, FALSE, TRUE, FALSE)>>,
   <<Member(6, FALSE, TRUE, FALSE, FALSE)>>}

Listings == UNION {[1..n -> PageKinds] : n \in 1..MaxPages}

\* the body of a response that has none
NoData == NoCall.data

\* what Slack answers to users.list at a cursor: the page after it, with the
\* cursor of the next page (0: the empty string of the last page)
pageAt(cursor) ==
  [NoData EXCEPT !.ok = TRUE, !.members = pages[cursor + 1],
                 !.next_cursor = IF cursor + 1 < Len(pages) THEN cursor + 1 ELSE 0]

\* the bodies Slack may answer a request with
Bodies(endpoint) ==
  IF endpoint.name = "users.list"
    THEN {pageAt(endpoint.cursor), NoData}
    ELSE {[NoData EXCEPT !.ok = TRUE, !.presence = p] : p \in {"active", "away"}} \cup {NoData}

\* slack.ts lines 49-52: slackApiCall is called with the default number of retries
Called(name, cursor) ==
  [NoCall EXCEPT !.pc = "fetch", !.endpoint = [name |-> name, cursor |-> cursor],
                 !.retries = MAX_RETRIES]

\* lines 78 and 87: the call calls itself with one retry less
Retried(c, failed) ==
  [c EXCEPT !.retries = @ - 1, !.attempts = @ + 1, !.failed = @ + (IF failed THEN 1 ELSE 0)]

\* lines 83-90: what was thrown in the try block is caught
Caught(c) ==
  IF c.retries > 0 THEN Retried(c, TRUE)
  ELSE [c EXCEPT !.pc = "thrown", !.attempts = @ + 1, !.failed = @ + 1]

\* lines 67-82: one request of slackApiCall and what it does with the response;
\* json tells whether the body parses
Responded(c, status, json, body) ==
  IF status = 429 /\ c.retries > 0 THEN Retried(c, TRUE)
  ELSE IF ~json THEN Caught(c)
  ELSE [c EXCEPT !.pc = "returned", !.attempts = @ + 1,
                 !.failed = @ + (IF status = 429 THEN 1 ELSE 0), !.data = body]

\* Slack answers the request with 200 and a body
SlackAnswers(body) ==
  /\ call.pc = "fetch"
  /\ body \in Bodies(call.endpoint)
  /\ call' = Responded(call, 200, TRUE, body)
  /\ UNCHANGED <<webhookVars, auditVars, cronVars, pages, listing, lookup, alert, click, before>>

\* Slack answers 429, with the body of an error or with one that is not JSON
SlackRateLimits(json) ==
  /\ call.pc = "fetch"
  /\ call' = Responded(call, 429, json, NoData)
  /\ UNCHANGED <<webhookVars, auditVars, cronVars, pages, listing, lookup, alert, click, before>>

\* fetch throws, or the body of another response is not JSON
SlackFails ==
  /\ call.pc = "fetch"
  /\ call' = Caught(call)
  /\ UNCHANGED <<webhookVars, auditVars, cronVars, pages, listing, lookup, alert, click, before>>

\* a loop that stops after two pages
morePagesCapped(cursor, requested) == cursor # 0 /\ requested < 2

\* slack.ts line 185: while (cursor)
morePages(cursor, requested) == cursor # 0

\* lines 179-181
pageGuests(members) ==
  SelectSeq(members, LAMBDA m : ~m.deleted /\ (m.is_restricted \/ m.is_ultra_restricted)
                                /\ ~m.is_bot)

\* lines 158-173: getGuests asks for the first page
getGuests ==
  /\ listing.pc = "idle" /\ call.pc = "idle"
  /\ listing' = [NoListing EXCEPT !.pc = "await", !.requested = 1]
  /\ call' = Called("users.list", 0)
  /\ UNCHANGED <<webhookVars, auditVars, cronVars, pages, lookup, alert, click, before>>

\* lines 175-187: a page is in; the loop asks for the next or getGuests returns
ListPage ==
  /\ listing.pc = "await" /\ call.pc = "returned"
  /\ IF ~call.data.ok
       THEN /\ listing' = [listing EXCEPT !.pc = "thrown"]
            /\ call' = NoCall
       ELSE LET cursor == call.data.next_cursor
                more == morePages(cursor, listing.requested)
            IN /\ listing' = [listing EXCEPT
                                !.guests = @ \o pageGuests(call.data.members),
                                !.cursor = cursor,
                                !.pc = IF more THEN "await" ELSE "returned",
                                !.requested = IF more THEN @ + 1 ELSE @]
               /\ call' = IF more THEN Called("users.list", cursor) ELSE NoCall
  /\ UNCHANGED <<webhookVars, auditVars, cronVars, pages, lookup, alert, click, before>>

\* line 170: slackApiCall throws and getGuests with it
ListRejected ==
  /\ listing.pc = "await" /\ call.pc = "thrown"
  /\ listing' = [listing EXCEPT !.pc = "thrown"]
  /\ call' = NoCall
  /\ UNCHANGED <<webhookVars, auditVars, cronVars, pages, lookup, alert, click, before>>

\* lines 198-206: getUserPresence asks for the presence of a guest
getUserPresence ==
  /\ lookup.pc = "idle" /\ call.pc = "idle"
  /\ lookup' = [NoLookup EXCEPT !.pc = "await"]
  /\ call' = Called("users.getPresence", 0)
  /\ UNCHANGED <<webhookVars, auditVars, cronVars, pages, listing, alert, click, before>>

\* lines 208-213
PresenceAnswered ==
  /\ lookup.pc = "await" /\ call.pc = "returned"
  /\ lookup' = [lookup EXCEPT !.pc = "returned",
                              !.result = IF call.data.ok THEN call.data.presence ELSE "away"]
  /\ call' = NoCall
  /\ UNCHANGED <<webhookVars, auditVars, cronVars, pages, listing, alert, click, before>>

\* line 203: slackApiCall throws, and getUserPresence has no catch
PresenceRejected ==
  /\ lookup.pc = "await" /\ call.pc = "thrown"
  /\ lookup' = [lookup EXCEPT !.pc = "thrown"]
  /\ call' = NoCall
  /\ UNCHANGED <<webhookVars, auditVars, cronVars, pages, listing, alert, click, before>>

\* the tables are empty and users.list has one of the listings
DirectoryInit ==
  /\ stripe_events_history = {}
  /\ subscriptions = {}
  /\ req = [h \in Handlers |-> Idle]
  /\ catalog = [e \in EventIds |-> Payloads[1]]
  /\ upserts = [e \in EventIds |-> 0]
  /\ faults = 0
  /\ NoCron
  /\ guest_audits = {}
  /\ directory = [w \in AuditTenants |-> << >>]
  /\ run = [r \in AuditRuns |-> NoRun]
  /\ started = 0
  /\ settled = [w \in AuditTenants |-> NoSettled]
  /\ audit_runs = {}
  /\ purged = NoPurge
  /\ pages \in Listings
  /\ call = NoCall
  /\ listing = NoListing
  /\ lookup = NoLookup
  /\ alert = NoAlert
  /\ click = NoClick
  /\ before = [h \in Handlers |-> {}]

DirectoryNext ==
  \/ getGuests
  \/ \E body \in Bodies(call.endpoint) : SlackAnswers(body)
  \/ \E json \in BOOLEAN : SlackRateLimits(json)
  \/ SlackFails
  \/ ListPage
  \/ ListRejected
  \/ getUserPresence
  \/ PresenceAnswered
  \/ PresenceRejected

\* every await of the client is answered or fails in the end
DirectorySpec == DirectoryInit /\ [][DirectoryNext]_vars /\ WF_vars(DirectoryNext)

\* ------------------------------------------------------------ the alert and its buttons
\* Strings whose characters matter are sequences of characters.
\* the literals deactivate_ and ignore_ of slack.ts lines 343 and 349 and of
\* slack-event.service.ts lines 182 and 205
DeactivatePrefix == <<"d", "e", "a", "c", "t", "i", "v", "a", "t", "e", "_">>
IgnorePrefix == <<"i", "g", "n", "o", "r", "e", "_">>

\* the actions a block_actions payload carries at most
MaxActions == 2

\* the guest ids an alert is built for: plain ones, the empty one, and ids that
\* begin with, are, or end with one of the prefixes
GuestIds ==
  LET U1 == <<"U", "1">>
  IN {U1, <<"U", "2">>, << >>, DeactivatePrefix, DeactivatePrefix \o U1, IgnorePrefix \o U1,
      DeactivatePrefix \o DeactivatePrefix \o U1, IgnorePrefix \o DeactivatePrefix \o U1,
      U1 \o IgnorePrefix}

\* slack.ts lines 321-355
buildInactiveGuestBlocks(guestId, costPerSeatMonthly) ==
  << [type |-> "section", guest |-> guestId, monthly |-> costPerSeatMonthly,
      yearly |-> costPerSeatMonthly * 12],
     [type |-> "actions",
      elements |-> << [type |-> "button", style |-> "danger",
                       value |-> DeactivatePrefix \o guestId,
                       action_id |-> SLACK_ACTION_ID.DEACTIVATE_GUEST],
                      [type |-> "button", style |-> "default",
                       value |-> IgnorePrefix \o guestId,
                       action_id |-> SLACK_ACTION_ID.IGNORE_GUEST] >>] >>

\* a replace that takes away every leading occurrence of the prefix
RECURSIVE replacePrefixRepeated(_, _)
replacePrefixRepeated(value, prefix) ==
  IF Len(value) >= Len(prefix) /\ SubSeq(value, 1, Len(prefix)) = prefix
    THEN replacePrefixRepeated(SubSeq(value, Len(prefix) + 1, Len(value)), prefix)
    ELSE value

\* slack-event.service.ts lines 182 and 205: actionValue.replace(/^prefix/, '')
replacePrefix(value, prefix) ==
  IF Len(value) >= Len(prefix) /\ SubSeq(value, 1, Len(prefix)) = prefix
    THEN SubSeq(value, Len(prefix) + 1, Len(value))
    ELSE value

\* lines 223-237: the update of action_taken where workspace and guest match
updateGuestAction(table, workspaceId, guestId, action) ==
  { IF row.workspace_id = workspaceId /\ row.slack_user_id = guestId
      THEN [row EXCEPT !.action_taken = action] ELSE row : row \in table }

\* audit.service.ts line 276: sendInactiveAlert builds the alert of a guest
BuildAlert(guestId, cost) ==
  /\ alert = NoAlert
  /\ alert' = [guestId |-> guestId, blocks |-> buildInactiveGuestBlocks(guestId, cost)]
  /\ UNCHANGED <<webhookVars, auditVars, cronVars, pages, call, listing, lookup, click, before>>

\* the actions an interaction with the alert may carry: its buttons and one
\* the application does not know
Clickable ==
  IF alert = NoAlert THEN {}
  ELSE {alert.blocks[2].elements[i] : i \in 1..2}
       \cup {[type |-> "button", style |-> "default", value |-> IgnorePrefix \o alert.guestId,
              action_id |-> "snooze_guest_action"]}

\* lines 154-160: a block_actions payload of the tenant arrives
handlePayload(actions) ==
  /\ alert # NoAlert /\ click.pc = "idle"
  /\ click' = [pc |-> "dispatch", actions |-> actions, handled |-> << >>]
  /\ UNCHANGED <<webhookVars, auditVars, cronVars, pages, call, listing, lookup, alert, before>>

\* the loop of lines 161-174 has taken an action: guestId is what its handler
\* made of the value
Dispatched(known, guestId) ==
  [click EXCEPT !.actions = Tail(@),
                !.handled = @ \o << [action_id |-> Head(click.actions).action_id,
                                     known |-> known, guestId |-> guestId] >>,
                !.pc = IF Len(click.actions) = 1 THEN "done" ELSE "dispatch"]

\* lines 163-165 and 177-198
handleDeactivate(w) ==
  /\ click.pc = "dispatch"
  /\ Head(click.actions).action_id = SLACK_ACTION_ID.DEACTIVATE_GUEST
  /\ LET guestId == replacePrefix(Head(click.actions).value, DeactivatePrefix)
     IN /\ guest_audits' = updateGuestAction(guest_audits, w, guestId,
                                             GUEST_ACTION.DEACTIVATION_ACCEPTED)
        /\ click' = Dispatched(TRUE, guestId)
  /\ UNCHANGED <<webhookVars, cronVars, directory, run, started, settled, audit_runs, purged,
                 pages, call, listing, lookup, alert, before>>

\* lines 167-169 and 200-221
handleIgnore(w) ==
  /\ click.pc = "dispatch"
  /\ Head(click.actions).action_id = SLACK_ACTION_ID.IGNORE_GUEST
  /\ LET guestId == replacePrefix(Head(click.actions).value, IgnorePrefix)
     IN /\ guest_audits' = updateGuestAction(guest_audits, w, guestId,
                                             GUEST_ACTION.IGNORED_BY_ADMIN)
        /\ click' = Dispatched(TRUE, guestId)
  /\ UNCHANGED <<webhookVars, cronVars, directory, run, started, settled, audit_runs, purged,
                 pages, call, listing, lookup, alert, before>>

\* lines 171-172: an action_id the application does not know is only logged
UnknownAction ==
  /\ click.pc = "dispatch"
  /\ Head(click.actions).action_id \notin
       {SLACK_ACTION_ID.DEACTIVATE_GUEST, SLACK_ACTION_ID.IGNORE_GUEST}
  /\ click' = Dispatched(FALSE, << >>)
  /\ UNCHANGED <<webhookVars, auditVars, cronVars, pages, call, listing, lookup, alert, before>>

\* the tables are empty and no alert was built
AlertInit ==
  /\ stripe_events_history = {}
  /\ subscriptions = {}
  /\ req = [h \in Handlers |-> Idle]
  /\ catalog = [e \in EventIds |-> Payloads[1]]
  /\ upserts = [e \in EventIds |-> 0]
  /\ faults = 0
  /\ NoAudits

AlertNext ==
  \/ \E guestId \in GuestIds, cost \in {DEFAULT_SEAT_COST_USD, 8} : BuildAlert(guestId, cost)
  \/ \E n \in 1..MaxActions : \E actions \in [1..n -> Clickable] : handlePayload(actions)
  \/ handleDeactivate("W1")
  \/ handleIgnore("W1")
  \/ UnknownAction

AlertSpec == AlertInit /\ [][AlertNext]_vars

\* ------------------------------------------------------------ deliveries and what they leave behind
\* lines 184-202: Receive when no other request is under way, with the
\* subscriptions table as the request finds it kept for the time of the request
Deliver(h, e, s) ==
  /\ req[h].pc = "idle"
  /\ \A g \in Handlers : req[g].pc \in {"idle", "done"}
  /\ IF ~constructEvent(s)
       THEN req' = [req EXCEPT ![h] = [Idle EXCEPT !.pc = "done", !.ev = e, !.sig = s,
                                                    !.response = 400]]
       ELSE req' = [req EXCEPT ![h] = [Idle EXCEPT !.pc = "insert", !.ev = e, !.sig = s]]
  /\ before' = [before EXCEPT ![h] = subscriptions]
  /\ UNCHANGED <<auditVars, cronVars, pages, call, listing, lookup, alert, click,
                 stripe_events_history, subscriptions, catalog, upserts, faults>>

\* at most MaxFaults calls fail
DeliveryInit == LiveInit

DeliveryNext ==
  \/ \E h \in Handlers, e \in EventIds, s \in {"valid", "invalid"} : Deliver(h, e, s)
  \/ \E h \in Handlers : Insert(h)
  \/ \E h \in Handlers : InsertError(h)
  \/ \E h \in Handlers : Select(h)
  \/ \E h \in Handlers : SelectError(h)
  \/ \E h \in Handlers : Reclaim(h)
  \/ \E h \in Handlers : ReclaimError(h)
  \/ \E h \in Handlers : Reconcile(h)
  \/ \E h \in Handlers : RetrieveThrows(h)
  \/ \E h \in Handlers : Lookup(h)
  \/ \E h \in Handlers : LookupError(h)
  \/ \E h \in Handlers : Upsert(h)
  \/ \E h \in Handlers : UpsertError(h)
  \/ \E h \in Handlers : MarkProcessed(h)
  \/ \E h \in Handlers : MarkProcessedError(h)
  \/ \E h \in Handlers : MarkFailed(h)
  \/ \E h \in Handlers : MarkFailedError(h)
  \/ \E h \in Handlers : Recycle(h)

DeliverySpec == DeliveryInit /\ [][DeliveryNext]_vars

\* ------------------------------------------------------------ the audit and the admin's clicks
\* the guests of the first tenant whose alert the admin answers, once in all
Answered == {1}

\* slack-event.service.ts lines 184-185 and 207-208: the admin clicks a button
\* of the alert of guest g of tenant w, and the handler of the button updates
\* the guest's row: deactivate true for Log Deactivation Intent, false for Ignore
ButtonClicked(w, g, deactivate) ==
  /\ click.handled = << >>
  /\ guest_audits' =
       updateGuestAction(guest_audits, w, g,
                         IF deactivate THEN GUEST_ACTION.DEACTIVATION_ACCEPTED
                         ELSE GUEST_ACTION.IGNORED_BY_ADMIN)
  /\ click' = [click EXCEPT !.handled =
                 @ \o << [action_id |-> IF deactivate THEN SLACK_ACTION_ID.DEACTIVATE_GUEST
                                        ELSE SLACK_ACTION_ID.IGNORE_GUEST,
                          known |-> \E row \in guest_audits :
                                      row.workspace_id = w /\ row.slack_user_id = g,
                          guestId |-> g] >>]
  /\ run' = Disturbed(w)
  /\ settled' = [settled EXCEPT ![w] = NoSettled]
  /\ UNCHANGED <<webhookVars, cronVars, directory, started, audit_runs, purged,
                 pages, call, listing, lookup, alert, before>>

InteractionNext ==
  \/ AuditNext
  \/ \E g \in Answered, deactivate \in BOOLEAN : ButtonClicked("W1", g, deactivate)

\* the first tenant has one guest
InteractionInit == SnapshotInit /\ Len(directory["W1"]) = 1

InteractionSpec == InteractionInit /\ [][InteractionNext]_vars

\* ------------------------------------------------------------ properties
StatusOf(e) == IF RowsOf(e) = {} THEN "absent" ELSE (CHOOSE r \in RowsOf(e) : TRUE).status

RowOf(e) == CHOOSE r \in RowsOf(e) : TRUE

\* between the claim and markStripeEventProcessed
ProcessingPcs == {"reconcile", "lookup", "upsert", "markProcessed"}

\* C1: of two deliveries of one event id that run claimStripeEvent concurrently,
\* exactly one obtains 'claimed' and goes on to process the event; the other
\* sees 'in_flight' or 'already_processed'.  Stated as what it forbids: while one
\* delivery holds the claim (it obtained 'claimed', is still processing, and the
\* row is processing and inside the staleness window), no other delivery of the
\* event obtains 'claimed'.  (Another one can only do so after reading the row
\* before the holder wrote it, that is with the two calls overlapping.)
C1_OneWinner ==
  [][\A h, g \in Handlers :
       ( /\ h # g
         /\ req[g].ev = req[h].ev
         /\ req[g].claimResult = "claimed"
         /\ req[g].pc \in ProcessingPcs
         /\ \E r \in RowsOf(req[g].ev) :
              r.status = "processing" /\ r.updated_at <= PROCESSING_STALE_MS )
       => ~(req[h].claimResult # "claimed" /\ req'[h].claimResult = "claimed")
    ]_vars

\* C2: for every event id the subscriptions upsert is executed at most once,
\* over any sequence of deliveries, failures, crashes and stalls.
C2_AtMostOneUpsert == \A e \in EventIds : upserts[e] <= 1

\* C3: the claim table holds at most one row per event id in every state, and
\* no step removes or duplicates the row of an event id that has one.
C3_OneRowPerEvent ==
  /\ [](\A e \in EventIds : Cardinality(RowsOf(e)) <= 1)
  /\ [][\A e \in EventIds : RowsOf(e) # {} => Cardinality(RowsOf(e)') = 1]_vars

\* C3 witness: one row, after it was claimed, failed, reclaimed and processed
C3_Witness ==
  \E e \in EventIds :
    /\ Cardinality(RowsOf(e)) = 1
    /\ \E r \in RowsOf(e) : r.status = "processed" /\ r.attempts = 2

AllowedTransition(s, t) ==
  \/ s = t
  \/ <<s, t>> \in { <<"absent", "processing">>, <<"processing", "processed">>,
                    <<"processing", "failed">>, <<"failed", "processing">> }

\* C4: the status of a claim row only moves absent->processing,
\* processing->processed, processing->failed and failed->processing; a processed
\* row never becomes processing or failed again.
C4_StatusLifecycle ==
  [][\A e \in EventIds : AllowedTransition(StatusOf(e), StatusOf(e)')]_vars

\* C5: claimStripeEvent reclaims an existing row exactly when the row is failed,
\* or processing with updated_at more than the staleness window ago; the reclaim
\* returns 'claimed', leaves the row processing, sets updated_at to the call's
\* timestamp and adds exactly 1 to attempts.
C5_ReclaimRule ==
  [][\A h \in Handlers :
       LET e == req[h].ev
           r == RowOf(e)
           reclaimable == \/ r.status = "failed"
                          \/ r.status = "processing" /\ r.updated_at > PROCESSING_STALE_MS
       IN /\ (req[h].pc = "select" /\ req'[h].pc = "reclaim") => reclaimable
          /\ (req[h].pc = "select" /\ req'[h].claimResult \in {"in_flight", "already_processed"})
               => ~reclaimable
          /\ (req[h].pc = "reclaim" /\ req'[h].pc = "reconcile")
               => /\ reclaimable
                  /\ req'[h].claimResult = "claimed"
                  /\ RowOf(e)'.status = "processing"
                  /\ RowOf(e)'.updated_at = req[h].nowIso
                  /\ r.attempts < MaxAttempts => RowOf(e)'.attempts = r.attempts + 1
    ]_vars

\* C6: a delivery that finds the row of its event processing and not stale gets
\* 'in_flight': it is answered 409, runs no reconciliation, and leaves the claim
\* table and the subscriptions table as they were.
C6_InFlight ==
  /\ [](\A h \in Handlers :
          req[h].claimResult = "in_flight" => req[h].pc = "done" /\ req[h].response = 409)
  /\ [][\A h \in Handlers :
          ( /\ req[h].pc = "select"
            /\ req'[h].pc \in {"done", "reclaim"}
            /\ req'[h].response # 500
            /\ \E r \in RowsOf(req[h].ev) :
                 r.status = "processing" /\ r.updated_at <= PROCESSING_STALE_MS )
          => /\ req'[h].claimResult = "in_flight"
             /\ req'[h].response = 409
             /\ req'[h].pc = "done"
             /\ UNCHANGED <<auditVars, cronVars, slackVars, stripe_events_history, subscriptions, upserts>>
     ]_vars

\* C6 witness: a second delivery was answered 409 while the first is processing
C6_Witness ==
  \E h, g \in Handlers :
    /\ req[h].claimResult = "in_flight"
    /\ req[h].response = 409
    /\ req[g].ev = req[h].ev
    /\ req[g].pc \in ProcessingPcs
    /\ StatusOf(req[h].ev) = "processing"

\* C7: a delivery that finds the row of its event processed gets
\* 'already_processed': it is answered 200 and changes nothing.
C7_AlreadyProcessed ==
  /\ [](\A h \in Handlers :
          req[h].claimResult = "already_processed" => req[h].pc = "done" /\ req[h].response = 200)
  /\ [][\A h \in Handlers :
          ( /\ req[h].pc = "select"
            /\ req'[h].pc \in {"done", "reclaim"}
            /\ req'[h].response # 500
            /\ \E r \in RowsOf(req[h].ev) : r.status = "processed" )
          => /\ req'[h].claimResult = "already_processed"
             /\ req'[h].response = 200
             /\ req'[h].pc = "done"
             /\ UNCHANGED <<auditVars, cronVars, slackVars, stripe_events_history, subscriptions, upserts>>
     ]_vars

\* C7 witness: a redelivery of a processed event was answered 200
C7_Witness ==
  \E h \in Handlers :
    /\ req[h].claimResult = "already_processed"
    /\ req[h].response = 200
    /\ StatusOf(req[h].ev) = "processed"
    /\ upserts[req[h].ev] = 1

\* C8 as claimed: a delivery that obtained 'claimed' and whose reconciliation
\* throws ends with the row failed, the error text recorded and a 500; one whose
\* reconciliation completes ends with the row processed and a 200.
C8_AsClaimed ==
  [][\A h \in Handlers :
       LET e == req[h].ev
       IN /\ (req[h].pc = "markFailed" /\ req'[h].pc = "done")
               => /\ req'[h].response = 500
                  /\ StatusOf(e)' = "failed"
                  /\ RowOf(e)'.last_error = req[h].err
          /\ (req[h].pc = "markProcessed" /\ req'[h].pc \notin {"markProcessed", "idle"})
               => /\ req'[h].pc = "done"
                  /\ req'[h].response = 200
                  /\ StatusOf(e)' = "processed"
    ]_vars

\* C8 as amended: when reconciliation throws, or the markProcessed update fails,
\* the response is 500 and the row is set to failed with the error text, unless
\* the markFailed update fails too, which leaves the claim table as it was; when
\* reconciliation completes and the markProcessed update succeeds, the row is
\* processed and the response is 200.
C8_Outcome ==
  [][\A h \in Handlers :
       LET e == req[h].ev
       IN /\ (req[h].pc = "markFailed" /\ req'[h].pc = "done")
               => /\ req'[h].response = 500
                  /\ \/ stripe_events_history' = stripe_events_history
                     \/ StatusOf(e)' = "failed" /\ RowOf(e)'.last_error = req[h].err
          /\ (req[h].pc = "markProcessed" /\ req'[h].pc = "done")
               => req'[h].response = 200 /\ StatusOf(e)' = "processed"
          /\ (req[h].pc = "markProcessed" /\ req'[h].pc \notin {"markProcessed", "done", "idle"})
               => /\ req'[h].pc = "markFailed"
                  /\ req'[h].err # NULL
                  /\ stripe_events_history' = stripe_events_history
          /\ (req[h].pc \in {"reconcile", "lookup", "upsert"} /\ req'[h].err # NULL)
               => req'[h].pc = "markFailed"
    ]_vars

\* C8 witness: a claimed delivery whose upsert failed: row failed, text kept, 500
C8_Witness ==
  \E h \in Handlers :
    /\ req[h].pc = "done"
    /\ req[h].claimResult = "claimed"
    /\ req[h].response = 500
    /\ StatusOf(req[h].ev) = "failed"
    /\ RowOf(req[h].ev).last_error = "Failed to upsert subscription"

\* C9: a request whose signature is missing or invalid is answered 400 before
\* any claim: no claim row is created or changed and no reconciliation runs.
C9_BadSignature ==
  /\ [](\A h \in Handlers :
          req[h].sig \in {"missing", "invalid"}
          => req[h].pc = "done" /\ req[h].response = 400 /\ req[h].claimResult = NULL)
  /\ [][\A h \in Handlers :
          (req[h].pc = "idle" /\ req'[h].sig \in {"missing", "invalid"})
          => UNCHANGED <<stripe_events_history, subscriptions, upserts>>
     ]_vars

\* C9 witness: an invalid signature was answered 400, the event having no row
C9_Witness ==
  \E h \in Handlers :
    /\ req[h].sig = "invalid"
    /\ req[h].response = 400
    /\ RowsOf(req[h].ev) = {}

\* C10: when the sender keeps delivering an event and the failures end, the
\* event's claim row reaches status processed.
C10_EventuallyProcessed == \A e \in EventIds : <>(StatusOf(e) = "processed")

\* C10 witness: a row that a failed attempt left failed was processed after a retry
C10_Witness ==
  \E r \in stripe_events_history : r.status = "processed" /\ r.attempts > 1 /\ faults = 0

\* ------------------------------------------------------------ the reconciler's claims
KnownPrices == {STRIPE_PRICE_STARTER, STRIPE_PRICE_GROWTH, STRIPE_PRICE_SCALE}

SubscriptionEvent(event) ==
  event.type \in {"customer.subscription.updated", "customer.subscription.deleted"}

\* a subscription event of a paying status whose price the configuration does not know
UnknownPriceEvent(event) ==
  /\ SubscriptionEvent(event)
  /\ event.status \in {"active", "trialing"}
  /\ event.price \notin KnownPrices

ExpectedCheckoutPlan(session, price) ==
  IF session.plan \in {"starter", "growth", "scale"} THEN session.plan
  ELSE IF session.subscription # NULL /\ price = STRIPE_PRICE_STARTER THEN "starter"
  ELSE IF session.subscription # NULL /\ price = STRIPE_PRICE_GROWTH THEN "growth"
  ELSE IF session.subscription # NULL /\ price = STRIPE_PRICE_SCALE THEN "scale"
  ELSE "starter"

\* C12: the plan a checkout-completed event stores is the metadata plan when it
\* is one of starter/growth/scale, otherwise the plan of the external
\* subscription's price id when a subscription id is present and the price is
\* recognized, otherwise 'starter'; with a valid metadata plan and no
\* subscription id no external lookup is made and the stored status is active.
C12_CheckoutPlan ==
  [][\A h \in Handlers, e \in ReconEventIds :
       ( /\ req[h].ev = e /\ req[h].pc = "upsert" /\ req'[h].pc = "markProcessed"
         /\ catalog[e].type = "checkout.session.completed" )
       => LET session == catalog[e]
              stored == {s \in subscriptions' : s.workspace_id = session.workspace}
          IN /\ stored # {}
             /\ \A s \in stored :
                  /\ s.plan = ExpectedCheckoutPlan(session, req[h].planPrice)
                  /\ (session.plan \in {"starter", "growth", "scale"}
                      /\ session.subscription = NULL)
                     => (req[h].retrieves = 0 /\ s.status = "active")]_vars

\* the scenario: metadata plan growth, no subscription id, stored and processed
C12_Witness ==
  \E e \in ReconEventIds :
    /\ catalog[e].type = "checkout.session.completed"
    /\ catalog[e].plan = "growth" /\ catalog[e].subscription = NULL
    /\ \E r \in RowsOf(e) : r.status = "processed"
    /\ \E s \in subscriptions :
         /\ s.workspace_id = catalog[e].workspace /\ s.plan = "growth"
         /\ s.status = "active" /\ s.stripe_subscription_id = NULL

Tenants == {"W1", "W2"}

\* C13: after any sequence of checkout-completed and subscription-updated/deleted
\* events the subscriptions table holds at most one row per tenant, and every
\* write to it is an upsert keyed by workspace_id: it leaves the rows of the
\* other tenants alone and leaves exactly one row of the tenant it writes.
C13_OneRowPerTenant ==
  /\ [](\A w \in Tenants : Cardinality({s \in subscriptions : s.workspace_id = w}) <= 1)
  /\ [](\A s \in subscriptions : s.workspace_id \in Tenants)
  /\ [][subscriptions' # subscriptions
          => \E w \in Tenants :
               /\ {s \in subscriptions' : s.workspace_id # w}
                    = {s \in subscriptions : s.workspace_id # w}
               /\ Cardinality({s \in subscriptions' : s.workspace_id = w}) = 1]_vars

\* both events were processed, each wrote the same tenant, and one row is there
C13_Witness ==
  /\ \A e \in ReconEventIds : upserts[e] = 1 /\ \E r \in RowsOf(e) : r.status = "processed"
  /\ catalog[1] # catalog[2]
  /\ Cardinality(subscriptions) = 1

\* C14: a processed subscription-updated/deleted event for a resolved tenant
\* stores the event's status verbatim, and stores the plan of the price id when
\* the status is active or trialing and 'free' for every other status,
\* whatever the price id.
C14_SubscriptionPlan ==
  [][\A h \in Handlers, e \in ReconEventIds :
       ( /\ req[h].ev = e /\ req[h].pc = "upsert" /\ req'[h].pc = "markProcessed"
         /\ SubscriptionEvent(catalog[e]) )
       => LET event == catalog[e]
              stored == {s \in subscriptions' : s.workspace_id = req[h].row.workspace_id}
          IN /\ stored # {}
             /\ \A s \in stored :
                  /\ s.status = event.status
                  /\ event.status \in {"active", "trialing"}
                       => \/ event.price = STRIPE_PRICE_STARTER /\ s.plan = "starter"
                          \/ event.price = STRIPE_PRICE_GROWTH /\ s.plan = "growth"
                          \/ event.price = STRIPE_PRICE_SCALE /\ s.plan = "scale"
                  /\ event.status \notin {"active", "trialing"} => s.plan = "free"]_vars

\* an event of another status with a known price was processed and stored as free
C14_Witness ==
  \E e \in ReconEventIds :
    /\ SubscriptionEvent(catalog[e])
    /\ catalog[e].status \notin {"active", "trialing"} /\ catalog[e].price \in KnownPrices
    /\ upserts[e] = 1 /\ \E r \in RowsOf(e) : r.status = "processed"
    /\ \E s \in subscriptions :
         /\ s.plan = "free" /\ s.status = catalog[e].status
         /\ s.stripe_subscription_id = catalog[e].subscription

\* C15: the tenant of a subscription-updated/deleted event is the workspaceId of
\* its metadata when present; only when it is absent is the tenant looked up by
\* customer id in the subscriptions table; and the upsert writes the row of
\* exactly that tenant.
C15_TenantResolution ==
  [][\A h \in Handlers, e \in ReconEventIds :
       (req[h].ev = e /\ SubscriptionEvent(catalog[e]))
       => LET event == catalog[e]
          IN /\ (req[h].pc = "reconcile" /\ req'[h].pc = "lookup") => event.workspace = NULL
             /\ (req[h].pc = "reconcile" /\ req'[h].pc = "upsert")
                => (event.workspace # NULL /\ req'[h].row.workspace_id = event.workspace)
             /\ (req[h].pc = "lookup" /\ req'[h].pc = "upsert")
                => \E s \in subscriptions :
                     /\ s.stripe_customer_id = event.customer
                     /\ s.workspace_id = req'[h].row.workspace_id
             /\ (req[h].pc = "upsert" /\ req'[h].pc = "markProcessed")
                => /\ {s \in subscriptions' : s.workspace_id # req[h].row.workspace_id}
                       = {s \in subscriptions : s.workspace_id # req[h].row.workspace_id}
                   /\ \E s \in subscriptions' :
                        /\ s.workspace_id = req[h].row.workspace_id
                        /\ s.stripe_subscription_id = event.subscription]_vars

\* the metadata named another tenant than the one that holds the customer id,
\* and the row of the metadata's tenant was written
C15_Witness ==
  \E e \in ReconEventIds :
    /\ SubscriptionEvent(catalog[e]) /\ catalog[e].workspace = "W2"
    /\ upserts[e] = 1 /\ \E r \in RowsOf(e) : r.status = "processed"
    /\ \E s \in subscriptions :
         s.workspace_id = "W1" /\ s.stripe_customer_id = catalog[e].customer
    /\ \E s \in subscriptions :
         s.workspace_id = "W2" /\ s.stripe_subscription_id = catalog[e].subscription

\* ------------------------------------------------------------ the audit's claims
Classified(r) == run[r].pc \in {"write", "record"}

In(list, x) == \E j \in DOMAIN list : list[j] = x

\* C16: for every guest list each guest is scored exactly once and classified as
\* exactly one of active (score >= threshold) or inactive (score < threshold),
\* so the active and the inactive counts add up to the number of guests the
\* directory listing returned, which is the count the audit records.
C16_EveryGuestClassified ==
  /\ [](\A r \in AuditRuns :
          /\ Len(run[r].scored) <= Len(run[r].guests)
          /\ \A i \in DOMAIN run[r].scored : run[r].scored[i].guest = run[r].guests[i].id
          /\ Classified(r)
             => /\ Len(run[r].scored) = Len(run[r].guests)
                /\ Len(activeGuests(run[r].scored)) + Len(inactiveGuests(run[r].scored))
                     = Len(run[r].guests)
                /\ \A i \in DOMAIN run[r].scored :
                     In(activeGuests(run[r].scored), run[r].scored[i])
                       # In(inactiveGuests(run[r].scored), run[r].scored[i]))
  /\ [][\A r \in AuditRuns :
          (run[r].pc = "record" /\ run'[r].pc = "done")
          => /\ run'[r].guestCount = Len(run[r].guests)
             /\ run'[r].inactiveCount + Len(activeGuests(run[r].scored))
                  = Len(run[r].guests)]_vars

\* an audit of eleven guests, scored in two batches, found both kinds
C16_Witness ==
  \E r \in AuditRuns :
    /\ run[r].pc = "done"
    /\ run[r].guestCount = GUEST_SCORING_CONCURRENCY + 1
    /\ run[r].inactiveCount > 0 /\ run[r].inactiveCount < run[r].guestCount

\* C17: a guest whose only positive signal is presence = active (no profile
\* update and no message within the window) is classified inactive: the
\* presence weight is strictly below the threshold.
C17_PresenceAlone ==
  /\ SCORE_PRESENCE_ACTIVE < MIN_ACTIVE_SCORE
  /\ \A r \in AuditRuns : \A i \in DOMAIN run[r].scored :
       ( /\ ~(run[r].guests[i].updated # 0 /\ run[r].guests[i].updated > cutoff)
         /\ presenceOf(run[r].ws, run[r].guests[i].id) = "active"
         /\ lastMessageOf(run[r].ws, run[r].guests[i].id) = 0 )
       => /\ run[r].scored[i].score < MIN_ACTIVE_SCORE
          /\ In(inactiveGuests(run[r].scored), run[r].scored[i])
          /\ ~In(activeGuests(run[r].scored), run[r].scored[i])

\* a guest scored on presence alone is flagged
C17_Witness ==
  \E r \in AuditRuns : \E i \in DOMAIN run[r].scored :
    /\ run[r].pc = "record"
    /\ presenceOf(run[r].ws, run[r].guests[i].id) = "active"
    /\ run[r].scored[i].score > 0 /\ run[r].scored[i].score < MIN_ACTIVE_SCORE
    /\ \E row \in guest_audits :
         row.workspace_id = run[r].ws /\ row.slack_user_id = run[r].guests[i].id

\* C18: a guest whose profile was updated within the lookback window is
\* classified active, and scoring makes no presence call and no
\* message-history call for that guest.
C18_ProfileShortCircuit ==
  \A r \in AuditRuns : \A i \in DOMAIN run[r].scored :
    (run[r].guests[i].updated # 0 /\ run[r].guests[i].updated > cutoff)
    => /\ run[r].scored[i].score >= MIN_ACTIVE_SCORE
       /\ In(activeGuests(run[r].scored), run[r].scored[i])
       /\ run[r].scored[i].presenceCalls = 0
       /\ run[r].scored[i].messageCalls = 0

\* a guest with a recent profile update, present and with a recent message, was
\* classified on the profile alone
C18_Witness ==
  \E r \in AuditRuns : \E i \in DOMAIN run[r].scored :
    /\ run[r].pc = "record"
    /\ run[r].guests[i].updated > cutoff
    /\ run[r].scored[i].source = "profile_check"
    /\ presenceOf(run[r].ws, run[r].guests[i].id) = "active"
    /\ lastMessageOf(run[r].ws, run[r].guests[i].id) # 0

\* C19: running the audit of a tenant twice in succession with unchanged
\* directory data leaves the set of guest_audits rows the first run left: the
\* same (tenant, guest) keys and no duplicates.  A run is a rerun when it
\* started after an undisturbed run of the tenant, and clean when no other
\* audit of the tenant overlapped it, no guest posted and no write failed.
C19_RerunIdempotent ==
  [][\A r \in AuditRuns :
       (run[r].pc = "record" /\ run'[r].pc = "done" /\ run[r].clean /\ run[r].rerun)
       => /\ settled[run[r].ws].known
          /\ KeysOf(run[r].ws) = settled[run[r].ws].keys
          /\ Cardinality({row \in guest_audits : row.workspace_id = run[r].ws})
               = Cardinality(settled[run[r].ws].keys)]_vars

\* a second audit of a tenant with flagged and with active guests is over
C19_Witness ==
  \E r \in AuditRuns :
    /\ run[r].pc = "done" /\ run[r].clean /\ run[r].rerun
    /\ run[r].inactiveCount > 0 /\ run[r].inactiveCount < run[r].guestCount
    /\ settled[run[r].ws].known /\ settled[run[r].ws].keys # {}

\* C20: in every reachable state guest_audits holds at most one row per
\* (tenant, guest id), also when two audits of one tenant overlap in time.
C20_OneRowPerGuest ==
  \A a, b \in guest_audits : SameKey(a, b) => a = b

\* two audits of one tenant overlap and both have flagged the same guest
C20_Witness ==
  \E r, g \in AuditRuns :
    /\ r # g /\ run[r].ws = run[g].ws
    /\ Classified(r) /\ Classified(g) /\ run[r].flagged /\ run[g].flagged
    /\ \E i \in DOMAIN run[r].scored, j \in DOMAIN run[g].scored :
         /\ run[r].scored[i].guest = run[g].scored[j].guest
         /\ run[r].scored[i].score < MIN_ACTIVE_SCORE
         /\ run[g].scored[j].score < MIN_ACTIVE_SCORE
         /\ \E row \in guest_audits :
              row.workspace_id = run[r].ws /\ row.slack_user_id = run[r].scored[i].guest

\* ------------------------------------------------------------ the claims of the alerts and the snapshot
\* C23: within the audit of one tenant the upsert of the flagged guests and the
\* delete of the guests no longer inactive are both over before the first
\* alert is started, and every alert has settled before the audit_runs row is
\* inserted.
C23_WritesAlertsSnapshot ==
  /\ [](\A r \in AuditRuns :
          (run[r].notified # << >> \/ run[r].pending > 0 \/ run[r].pc \in {"alert", "record"})
            => run[r].flagged /\ run[r].cleared)
  /\ [][\A r \in AuditRuns :
          (audit_runs' # audit_runs /\ run'[r] # run[r])
            => /\ run[r].pc = "record"
               /\ run[r].pending = 0
               /\ run[r].flagged /\ run[r].cleared]_vars

\* an audit that alerted about a guest has inserted its snapshot
C23_Witness ==
  \E r \in AuditRuns :
    /\ run[r].pc = "done" /\ run[r].outcome = "fulfilled"
    /\ run[r].notified # << >>
    /\ \E row \in audit_runs : row.workspace_id = run[r].ws

Occurrences(list, x) == Cardinality({i \in DOMAIN list : list[i] = x})

\* C24: an audit starts exactly one alert for every guest it classified as
\* inactive and none for a guest it classified as active, whether or not an
\* earlier audit already alerted about the guest; no alert is started before the
\* classification.
C24_OneAlertPerInactiveGuest ==
  \A r \in AuditRuns :
    /\ run[r].pc \in {"alert", "record"} =>
         /\ \A i \in DOMAIN run[r].scored :
              Occurrences(run[r].notified, run[r].scored[i].guest)
                = IF run[r].scored[i].score < MIN_ACTIVE_SCORE THEN 1 ELSE 0
         /\ \A k \in DOMAIN run[r].notified :
              \E i \in DOMAIN run[r].scored : run[r].scored[i].guest = run[r].notified[k]
    /\ run[r].pc \in {"idle", "list", "score", "write"} => run[r].notified = << >>
    /\ run[r].pc = "done" /\ run[r].outcome = "fulfilled" =>
         Len(run[r].notified) = run[r].inactiveCount

\* the audit that follows an undisturbed audit of the tenant alerts again about
\* a guest the earlier audit left flagged, next to a guest it takes for active
C24_Witness ==
  \E r \in AuditRuns :
    /\ run[r].pc = "record" /\ run[r].rerun /\ run[r].clean
    /\ \E k \in DOMAIN run[r].notified : run[r].notified[k] \in settled[run[r].ws].keys
    /\ Len(run[r].notified) < Len(run[r].scored)

\* C25: an alert that fails does not end the audit of the tenant: the other
\* alerts stay started and settle, the snapshot insert is carried out next, and
\* auditWorkspace returns the full number of inactive guests.
C25_AlertFailureIsolated ==
  /\ [](\A r \in AuditRuns :
          run[r].alertFailed =>
            /\ run[r].pc \in {"alert", "record", "done"}
            /\ run[r].pc \in {"alert", "record"} => run[r].notified = alerted(run[r].scored)
            /\ run[r].pc = "alert" => run[r].pending > 0
            /\ run[r].pc = "record" => run[r].pending = 0 /\ ENABLED RecordRun(r)
            /\ run[r].pc = "done" =>
                 /\ run[r].outcome = "fulfilled"
                 /\ run[r].inactiveCount = Len(run[r].notified))
  /\ [][\A r \in AuditRuns :
          (run[r].alertFailed /\ run[r].pc = "record" /\ audit_runs' # audit_runs
           /\ run'[r] # run[r])
            => \E row \in audit_runs' \ audit_runs :
                 /\ row.workspace_id = run[r].ws
                 /\ row.workspace_inactive_count = Len(run[r].notified)]_vars

\* an audit with two inactive guests lost an alert; it inserted its snapshot and
\* returned both guests
C25_Witness ==
  \E r \in AuditRuns :
    /\ run[r].pc = "done" /\ run[r].alertFailed /\ run[r].outcome = "fulfilled"
    /\ Len(run[r].notified) = 2 /\ run[r].inactiveCount = 2
    /\ \E row \in audit_runs :
         row.workspace_id = run[r].ws /\ row.workspace_inactive_count = 2

\* C29: every audit of a tenant that completes inserts exactly one audit_runs
\* row, with the number of its scored guests, the number of its inactive guests
\* and that number times the seat cost of the tenant; an audit that throws
\* inserts none; and no audit changes or deletes a row that is there.
C29_OneSnapshotPerAudit ==
  [][/\ audit_runs \subseteq audit_runs'
     /\ audit_runs' # audit_runs =>
          \E r \in AuditRuns : run[r].pc # "done" /\ run'[r].pc = "done"
     /\ \A r \in AuditRuns :
          (run[r].pc # "done" /\ run'[r].pc = "done") =>
            IF run'[r].outcome = "fulfilled"
              THEN \E row \in audit_runs' \ audit_runs :
                     /\ audit_runs' = audit_runs \cup {row}
                     /\ row.workspace_id = run[r].ws
                     /\ row.workspace_guest_count = Len(run[r].scored)
                     /\ row.workspace_inactive_count = Len(inactiveGuests(run[r].scored))
                     /\ row.workspace_estimated_waste
                          = Len(inactiveGuests(run[r].scored)) * costPerSeat(run[r].ws)
              ELSE audit_runs' = audit_runs]_vars

\* ------------------------------------------------------------ the claims of the full run
Selected == {cron.selected[k] : k \in DOMAIN cron.selected}

\* C21: the failure of the audit of one tenant (decrypt, Slack calls, database)
\* never keeps another eligible tenant from being audited: the run does not
\* throw, every batch is followed by the next, and when the run returns every
\* selected tenant that did not fail itself has been audited to its end.
C21_FailureIsolation ==
  /\ [](cron.result = "error" => \A t \in TenantSet : task[t].pc = "none")
  /\ [](\A t \in TenantSet : task[t].pc = "rejected" => task[t].failure \in {"decrypt", "directory"})
  /\ [](cron.pc = "done" /\ cron.result = "ok" =>
          \A t \in Selected :
            /\ task[t].pc \in {"fulfilled", "rejected"}
            /\ task[t].failure \notin {"decrypt", "directory"} => task[t].pc = "fulfilled")
  /\ [][cron.pc = "await" /\ cron'.pc # "await" =>
          /\ cron'.i = cron.i + 5
          /\ cron'.pc = IF cron'.i <= Len(cron.selected) THEN "batch" ELSE "done"
          /\ cron'.result # "error"]_vars

\* the audit of a tenant of the first batch threw; a tenant of the same batch
\* and a tenant of the second batch were audited and the run returned
C21_Witness ==
  /\ cron.pc = "done" /\ cron.result = "ok"
  /\ \E a, b, c \in DOMAIN cron.selected :
       /\ a <= 5 /\ b <= 5 /\ c > 5
       /\ task[cron.selected[a]].pc = "rejected"
       /\ task[cron.selected[b]].pc = "fulfilled"
       /\ task[cron.selected[c]].pc = "fulfilled"

\* C22: the result of the run counts the tenants whose audit had no failure
\* and adds up their inactive guests; a tenant whose credential, whose Slack
\* calls or whose database writes failed adds to neither number.
C22_ResultOfSucceeded ==
  (cron.pc = "done" /\ cron.result = "ok") =>
    LET succeeded == {t \in Selected : task[t].pc = "fulfilled" /\ task[t].failure = NULL}
    IN /\ cron.totalAudited = Cardinality(succeeded)
       /\ cron.totalFlagged = Sum([t \in succeeded |-> Estate[t].inactive], succeeded)

\* C26: a full run audits a tenant only if, when the run selects its tenants,
\* the tenant has a subscriptions row with the status active or trialing; for
\* no other tenant an audit is ever started, whatever its status becomes later.
C26_OnlyEligibleAudited ==
  /\ [][(cron.pc = "idle" /\ cron'.pc # "idle") =>
          \A k \in DOMAIN cron'.selected :
            \E row \in subscriptions :
              /\ row.workspace_id = cron'.selected[k]
              /\ row.status \in {"active", "trialing"}]_vars
  /\ [][cron.pc # "idle" => cron'.selected = cron.selected]_vars
  /\ [](\A t \in TenantSet : task[t].pc # "none" => t \in Selected)

\* the run audited the tenants it selected; the tenant that had canceled
\* became active after the selection and has not been audited
C26_Witness ==
  /\ cron.pc = "done" /\ cron.result = "ok"
  /\ task["T1"].pc = "fulfilled" /\ task["T6"].pc = "fulfilled"
  /\ \E row \in subscriptions : row.workspace_id = "T7" /\ row.status = "active"
  /\ task["T7"].pc = "none" /\ task["T8"].pc = "none" /\ task["T9"].pc = "none"

\* C27: once the app_uninstalled event of a workspace has been handled, no
\* later full run selects the workspace, even with a subscription that is
\* active or trialing.
C27_UninstalledNotAudited ==
  [][(cron.pc = "idle" /\ cron'.pc # "idle") =>
       \A k \in DOMAIN cron'.selected : workspaces[cron'.selected[k]].is_active]_vars

Pending(t) == task[t].pc \in {"list", "score", "persist"}

C30_PurgeByLastUpdate ==
  /\ [][purged' # purged =>
          /\ \A row \in guest_audits \ guest_audits' : row.updated_age > 90
          /\ \A row \in guest_audits : row.updated_age <= 90 => row \in guest_audits']_vars
  /\ [][(run' = run /\ directory' = directory /\ purged' = purged) =>
          {[workspace_id |-> row.workspace_id, slack_user_id |-> row.slack_user_id] :
             row \in guest_audits'}
          = {[workspace_id |-> row.workspace_id, slack_user_id |-> row.slack_user_id] :
               row \in guest_audits}]_vars

\* the purge has left a row that was created more than 90 days ago and flagged
\* again since
C30_Witness ==
  \E row \in purged.kept : row.created_age > 90 /\ row.updated_age <= 90 /\ row \in guest_audits

\* the members of the pages from the k-th on
RECURSIVE MembersFrom(_)
MembersFrom(k) == IF k > Len(pages) THEN << >> ELSE pages[k] \o MembersFrom(k + 1)

GuestTier(m) == (m.is_restricted \/ m.is_ultra_restricted) /\ ~m.deleted /\ ~m.is_bot

\* C31: getGuests asks for a page as long as the last one came with a cursor,
\* however many pages there are, and returns exactly the members of all pages
\* that are guests, not deleted and not bots; on a listing of finitely many
\* pages it comes to an end.
C31_Pagination ==
  /\ [](listing.pc = "returned"
          => /\ listing.requested = Len(pages)
             /\ listing.guests = SelectSeq(MembersFrom(1), GuestTier))
  /\ (listing.pc = "await" ~> listing.pc \in {"returned", "thrown"})

\* a listing of as many pages as there may be was read to its end, members
\* were left out and a request of it was retried
C31_Witness ==
  /\ listing.pc = "returned"
  /\ listing.requested = MaxPages
  /\ listing.guests # << >>
  /\ Len(listing.guests) < Len(MembersFrom(1))

\* C32: a call of slackApiCall makes at most MAX_RETRIES + 1 requests, whatever
\* mix of 429 responses and network errors it meets, and when every request of
\* it was rate-limited or failed the call throws instead of returning a result.
C32_BoundedRetries ==
  /\ call.attempts <= MAX_RETRIES + 1
  /\ call.pc \in {"returned", "thrown"} /\ call.failed = call.attempts => call.pc = "thrown"

\* C33: getUserPresence never throws: when the lookup fails (an error
\* response, rate limits or network errors up to the last retry) it returns
\* 'away'.
C33_PresenceFailsSoft ==
  /\ lookup.pc # "thrown"
  /\ lookup.pc = "returned" => lookup.result \in {"active", "away"}

\* C34: for every guest id the alert of buildInactiveGuestBlocks carries
\* exactly two buttons, with different action ids, and the handler of each
\* button makes of the button's value exactly that guest id, also when the id
\* itself begins with deactivate_ or ignore_.
C34_ButtonsRoundTrip ==
  alert # NoAlert
    => /\ Len(alert.blocks[2].elements) = 2
       /\ alert.blocks[2].elements[1].action_id # alert.blocks[2].elements[2].action_id
       /\ \A k \in DOMAIN click.handled :
            click.handled[k].known => click.handled[k].guestId = alert.guestId

\* both buttons of the alert of a guest whose id begins with a prefix were handled
C34_Witness ==
  /\ alert.guestId = DeactivatePrefix \o DeactivatePrefix \o <<"U", "1">>
  /\ click.pc = "done"
  /\ Len(click.handled) = 2
  /\ click.handled[1].known /\ click.handled[2].known
  /\ click.handled[1].action_id # click.handled[2].action_id

\* C35: when the alert of a guest is sent, the guest_audits row of tenant and
\* guest is in the table with is_flagged true, also when the upsert of the
\* batch came back with a database error.
C35_FlaggedBeforeNotified ==
  [][\A r \in AuditRuns :
       run[r].notified = << >> /\ run'[r].notified # << >>
         => \A i \in DOMAIN run'[r].notified :
              \E row \in guest_audits' :
                /\ row.workspace_id = run'[r].ws
                /\ row.slack_user_id = run'[r].notified[i]
                /\ row.is_flagged]_vars

\* C36: a delivery that is answered 500 leaves the subscriptions table as it
\* was when the delivery arrived, also when it is markStripeEventProcessed that
\* fails, after the upsert of the subscription.
C36_FailedDeliveryNoWrite ==
  \A h \in Handlers :
    req[h].pc = "done" /\ req[h].response = 500 => subscriptions = before[h]

\* C37: an audit of a tenant that fails at the decryption of the credential, at
\* the listing of the guests or at the scoring of a guest has written and
\* deleted no guest_audits row, has sent no alert and has inserted no audit_runs
\* row: the step that makes it fail changes neither table, and no write, alert
\* or snapshot of it came before.
C37_FailedAuditNoEffect ==
  /\ [](\A r \in AuditRuns :
          run[r].outcome = "rejected"
            => ~run[r].flagged /\ ~run[r].cleared /\ run[r].notified = << >>
               /\ run[r].pending = 0)
  /\ [][\A r \in AuditRuns :
          run[r].outcome # "rejected" /\ run'[r].outcome = "rejected"
            => /\ guest_audits' = guest_audits
               /\ audit_runs' = audit_runs
               /\ run[r].pc \in {"idle", "list", "score"}]_vars

\* an audit failed at the scoring while the table has rows of its tenant, left
\* by an earlier audit
C37_Witness ==
  \E r \in AuditRuns :
    /\ run[r].outcome = "rejected"
    /\ run[r].gen = 2
    /\ \E row \in guest_audits : row.workspace_id = run[r].ws
    /\ \E row \in audit_runs : row.workspace_id = run[r].ws

C40_Unhandled(event) ==
  event.type \notin {"checkout.session.completed", "customer.subscription.updated",
                     "customer.subscription.deleted"}

C40_NoReference(event) ==
  event.type = "checkout.session.completed" /\ event.workspace = NULL

C40_Unresolved(event) ==
  /\ event.type \in {"customer.subscription.updated", "customer.subscription.deleted"}
  /\ ~(isActive(event) /\ mapPriceIdToPlan(event.price) = NULL)
  /\ metadataWorkspaceId(event) = NULL
  /\ \A s \in subscriptions : s.stripe_customer_id # event.customer

C40_Skipped(e) ==
  /\ RowsOf(e) # {}
  /\ \A r \in RowsOf(e) : r.status = "processed"
  /\ upserts[e] = 0

C40_SkippedNeverReconciled ==
  [][\A e \in ReconEventIds :
       /\ \A h \in Handlers :
            /\ req[h].ev = e /\ req'[h].pc # req[h].pc
            /\ req[h].pc \in {"reconcile", "lookup"}
            /\ C40_Unhandled(catalog[e]) \/ C40_NoReference(catalog[e])
                  \/ C40_Unresolved(catalog[e])
            => /\ req'[h].pc \in {"lookup", "markProcessed"}
               /\ subscriptions' = subscriptions
       /\ \A h \in Handlers :
            /\ req[h].ev = e /\ req'[h].pc # req[h].pc
            /\ req[h].pc = "markProcessed" /\ upserts[e] = 0
            => /\ req'[h].pc = "done" /\ req'[h].response = 200
               /\ subscriptions' = subscriptions
               /\ C40_Skipped(e)'
       /\ C40_Skipped(e)
            => /\ C40_Skipped(e)'
               /\ \A h \in Handlers :
                    req[h].ev = e /\ req[h].pc = "select" /\ req'[h].pc # req[h].pc
                    => /\ req'[h].claimResult = "already_processed"
                       /\ req'[h].response = 200]_vars

====
